---------------------------- MODULE Spec2Model ----------------------------
(***************************************************************************)
(* Day-finalization and streak state machine of the AI-Tracker dashboard.  *)
(*                                                                         *)
(* Several specifications share the variables below:                       *)
(*   SpecPure      the pure classifiers (habit predicate, day state,       *)
(*                 preview) on records and configurations from bounded     *)
(*                 sets;                                                   *)
(*   SpecEvaluate  one habit's streak evaluated for one finalized record;  *)
(*   Spec          the browser application over several days: data entry,  *)
(*                 finalize (saveNow), timers, clock and day rollover;     *)
(*   SpecDay       one calendar day of the application without a backend, *)
(*                 with every daily-routine handler;                       *)
(*   SpecFinalize  saveNow from the states a day of data entry leaves;     *)
(*   SpecBackend   the backend's streak table and day-transition check.    *)
(*                                                                         *)
(* Dates are day numbers; times of day are minutes since midnight; hours   *)
(* are whole numbers.                                                      *)
(***************************************************************************)
EXTENDS Integers, Sequences, FiniteSets, TLC

VARIABLES
    today,          \* the calendar date the clock shows (getDateString())
    dailyLogs,      \* dashboardData.dailyLogs: sequence of day records
    streaks,        \* dashboardData.streaks: habit -> current count
    streakHistory,  \* dashboardData.streakHistory: habit -> best/lastBroken/recoveryDays/lastUpdated
    lifeScore,      \* dashboardData.year.lifeScore
    lastActiveDate, \* dashboardData.lastActiveDate
    settings,       \* SettingsAuthority.current and dashboardData.settings
    stored,         \* localStorage copy of dashboardData ("dashboardData" key)
    useBackend,     \* script.js useBackend
    pending,        \* saveNow calls suspended on API.saveToday: set of record dates
    dom,            \* DOM state the handlers read and write
    clockHour,      \* the hour of day the clock shows (new Date().getHours())
    rejects,        \* how many times API.saveToday has failed so far
    pureIn,         \* SpecPure: the record and configuration under evaluation
    pureOut,        \* SpecPure: the result of the last evaluation
    bStreaks,       \* SpecBackend: rows of the backend table `streaks`
    bLogs,          \* SpecBackend: rows of the backend table `daily_logs`, by date
    bMigrated       \* SpecBackend: app_settings has 'migrated_from_localstorage'

vars == <<today, dailyLogs, streaks, streakHistory, lifeScore, lastActiveDate,
          settings, stored, useBackend, pending, dom, clockHour, rejects, pureIn,
          pureOut,
          bStreaks, bLogs, bMigrated>>

appVars == <<today, dailyLogs, streaks, streakHistory, lifeScore, lastActiveDate,
             settings, stored, useBackend, pending, dom, clockHour, rejects>>

pureVars == <<pureIn, pureOut>>

backendVars == <<bStreaks, bLogs, bMigrated>>

----------------------------------------------------------------------------
(* Bounds of the model *)

\* number of calendar days the application is followed through
MaxDay == 2

\* longest absence (in days) before the first followed day
MaxGap == 2

\* how many times the backend may fail a save
MaxRejects == 1

MaxHours == 2

MaxStreak == 3

(* Program constants *)

NumMits == 3

WAKE_TOLERANCE == 30

DEFAULT_WAKEUP_TARGET == 345

DEFAULT_SCREEN_GOAL == 3

STRICT_RECOVERY_DAYS == 5

MAX_PUNISHED_RECOVERY == 7

BEDTIME_TARGET_HOUR == 23

EveningHour == 18

\* breakStreak of the backend: recovery_days: 3
BACKEND_RECOVERY_DAYS == 3

\* checkStreakDayTransition: wakeup_time <= '06:00', in minutes
BACKEND_WAKE_LIMIT == 360

\* checkStreakDayTransition: screen_time < 3
BACKEND_SCREEN_LIMIT == 3

\* breakHabitStreak: Math.ceil(currentStreak / 3), at most 5
RECOVERY_DIVISOR == 3

AUTHORITY_MAX_RECOVERY == 5

ScoreWindowDays == 7

NoDate == 0 - 1

\* Day 0 stands for any earlier date; the application is followed from FirstDay.
EarlierDay == 1 - 1

FirstDay == MaxGap + 1

LastDay == FirstDay + MaxDay - 1

WakeNull == 0 - 1

----------------------------------------------------------------------------
(* Vocabulary *)

DAY_STATES ==
    [ NOT_COUNTED |-> "NOT_COUNTED", COMPLETED |-> "COMPLETED", MISSED |-> "MISSED",
      NOT_STARTED |-> "NOT_STARTED", IN_PROGRESS |-> "IN_PROGRESS" ]

RequiredHabitOrder == <<"learning", "gym", "sleep", "screenTime">>

StreakHabitSet == {"learning", "gym", "sleep"}

HabitIdSet == {"learning", "gym", "sleep", "screenTime"}

----------------------------------------------------------------------------
(* Sequence helpers *)

RECURSIVE SelectSeqBy(_, _)
SelectSeqBy(s, keep) ==
    IF s = <<>> THEN <<>>
    ELSE IF keep[Head(s)] THEN <<Head(s)>> \o SelectSeqBy(Tail(s), keep)
         ELSE SelectSeqBy(Tail(s), keep)

Max(a, b) == IF a >= b THEN a ELSE b

Min(a, b) == IF a <= b THEN a ELSE b

----------------------------------------------------------------------------
(* HabitValidator and DayStateMachine of script.js *)

\* settingsAuthority?.get('nonNegotiables.<h>.enabled') !== false
habitEnabled(cfg, h) == cfg.enabled[h] # "false"

getEnabledRequiredHabits(cfg) ==
    SelectSeqBy(RequiredHabitOrder, [h \in HabitIdSet |-> habitEnabled(cfg, h)])

wasWakeupOnTime(log, cfg) ==
    /\ log.wakeUp # WakeNull
    /\ log.wakeUp - cfg.wakeupTarget <= WAKE_TOLERANCE

screenGoalOrDefault(cfg) ==
    IF cfg.screenTimeGoal = 0 THEN DEFAULT_SCREEN_GOAL ELSE cfg.screenTimeGoal

\* Variant whose learning test accepts only hours below the daily maximum.
isHabitValidated_cappedHours(habitId, log, cfg) ==
    CASE habitId = "learning"   -> /\ log.learningDone
                                   /\ log.learningHours > 0
                                   /\ log.learningHours < MaxHours
      [] habitId = "gym"        -> log.workout
      [] habitId = "sleep"      -> wasWakeupOnTime(log, cfg)
      [] habitId = "screenTime" -> log.screenTime <= screenGoalOrDefault(cfg)
      [] OTHER                  -> TRUE

isHabitValidated(habitId, log, cfg) ==
    CASE habitId = "learning"   -> log.learningDone /\ log.learningHours > 0
      [] habitId = "gym"        -> log.workout
      [] habitId = "sleep"      -> wasWakeupOnTime(log, cfg)
      [] habitId = "screenTime" -> log.screenTime <= screenGoalOrDefault(cfg)
      [] OTHER                  -> TRUE

\* The loop of calculateDayState: stop at the first habit that is not validated.
RECURSIVE allHabitsMet(_, _, _)
allHabitsMet(habits, log, cfg) ==
    IF habits = <<>> THEN TRUE
    ELSE IF ~isHabitValidated(Head(habits), log, cfg) THEN FALSE
         ELSE allHabitsMet(Tail(habits), log, cfg)

calculateDayState_noFinalizedGuard(log, cfg) ==
    LET enabledHabits == getEnabledRequiredHabits(cfg) IN
    IF enabledHabits = <<>> THEN DAY_STATES.COMPLETED
    ELSE IF allHabitsMet(enabledHabits, log, cfg) THEN DAY_STATES.COMPLETED
         ELSE DAY_STATES.MISSED

calculateDayState_firstHabitOnly(log, cfg) ==
    LET enabledHabits == getEnabledRequiredHabits(cfg) IN
    IF ~log.finalized THEN DAY_STATES.NOT_COUNTED
    ELSE IF enabledHabits = <<>> THEN DAY_STATES.COMPLETED
    ELSE IF isHabitValidated(Head(enabledHabits), log, cfg) THEN DAY_STATES.COMPLETED
         ELSE DAY_STATES.MISSED

calculateDayState(log, cfg) ==
    LET enabledHabits == getEnabledRequiredHabits(cfg) IN
    IF ~log.finalized THEN DAY_STATES.NOT_COUNTED
    ELSE IF enabledHabits = <<>> THEN DAY_STATES.COMPLETED
    ELSE IF allHabitsMet(enabledHabits, log, cfg) THEN DAY_STATES.COMPLETED
         ELSE DAY_STATES.MISSED

hasAnyDataEntered(log, cfg) ==
    \/ log.learningDone
    \/ log.workout
    \/ (log.wakeUp # WakeNull /\ log.wakeUp # cfg.wakeupTarget)
    \/ log.screenTime > 0
    \/ log.learningHours > 0
    \/ log.mits > 0

getUIState(log, cfg) ==
    IF log.finalized THEN calculateDayState(log, cfg)
    ELSE IF hasAnyDataEntered(log, cfg) THEN DAY_STATES.IN_PROGRESS
         ELSE DAY_STATES.NOT_STARTED

getHabitDisplayName(habitId) ==
    CASE habitId = "learning"   -> "Learning"
      [] habitId = "gym"        -> "Workout"
      [] habitId = "sleep"      -> "Wake-up"
      [] habitId = "screenTime" -> "Screen Time"
      [] OTHER                  -> habitId

\* The forEach of previewFinalState: display names of the failing habits, in order.
RECURSIVE previewMissing(_, _, _)
previewMissing(habits, log, cfg) ==
    IF habits = <<>> THEN <<>>
    ELSE IF ~isHabitValidated(Head(habits), log, cfg)
         THEN <<getHabitDisplayName(Head(habits))>> \o previewMissing(Tail(habits), log, cfg)
         ELSE previewMissing(Tail(habits), log, cfg)

previewFinalState_skipsScreenTime(log, cfg) ==
    LET enabledHabits == SelectSeqBy(getEnabledRequiredHabits(cfg),
                                     [h \in HabitIdSet |-> h # "screenTime"])
        missingHabits == previewMissing(enabledHabits, log, cfg)
    IN  [ state |-> IF missingHabits = <<>> THEN DAY_STATES.COMPLETED ELSE DAY_STATES.MISSED,
          missingHabits |-> missingHabits,
          mitsCompleted |-> log.mitsDone ]

previewFinalState(log, cfg) ==
    LET enabledHabits == getEnabledRequiredHabits(cfg)
        missingHabits == previewMissing(enabledHabits, log, cfg)
        allMet        == missingHabits = <<>>
    IN  [ state |-> IF enabledHabits = <<>> THEN DAY_STATES.COMPLETED
                    ELSE IF allMet THEN DAY_STATES.COMPLETED ELSE DAY_STATES.MISSED,
          missingHabits |-> missingHabits,
          mitsCompleted |-> log.mitsDone ]

----------------------------------------------------------------------------
(* DayStateMachine of habitSystem.js (the settings object is passed in) *)

HabitRegistryOrder == <<"learning", "gym", "sleep", "screenTime">>

\* HabitRegistry.getCompletionHabits: enabled, and countsTowardCompletion not
\* switched off in the settings (every registry habit counts by default).
getCompletionHabits(cfg) ==
    SelectSeqBy(HabitRegistryOrder,
                [h \in HabitIdSet |-> cfg.enabled[h] # "false" /\ cfg.counts[h] # "false"])

isWakeupOnTime(wakeupTime, targetTime, toleranceMinutes) ==
    /\ wakeupTime # WakeNull
    /\ wakeupTime - targetTime <= toleranceMinutes

DayStateMachine_isHabitComplete(habitId, dayLog, cfg) ==
    CASE habitId = "learning"   -> dayLog.learningDone /\ dayLog.learningHours >= cfg.minHoursDaily
      [] habitId = "gym"        -> dayLog.workout
      [] habitId = "sleep"      -> /\ dayLog.wakeUp # WakeNull
                                   /\ isWakeupOnTime(dayLog.wakeUp, cfg.sleepTarget, cfg.wakeupTolerance)
      [] habitId = "screenTime" -> dayLog.screenTime <= cfg.dailyLimit
      [] OTHER                  -> FALSE

DayStateMachine_calculateState(dayLog, cfg) ==
    LET enabledHabits == getCompletionHabits(cfg) IN
    IF ~dayLog.finalized THEN DAY_STATES.NOT_COUNTED
    ELSE IF enabledHabits = <<>> THEN DAY_STATES.COMPLETED
    ELSE IF \A i \in 1..Len(enabledHabits) :
                DayStateMachine_isHabitComplete(enabledHabits[i], dayLog, cfg)
         THEN DAY_STATES.COMPLETED
         ELSE DAY_STATES.MISSED

----------------------------------------------------------------------------
(* HabitStreakAuthority of habitSystem.js; streakData is a record
   current / best / recoveryDays / lastBroken / lastUpdated *)

\* HabitRegistry: streakEnabled
streakEnabled(habitId) == habitId \in {"learning", "gym", "sleep"}

\* Math.min(Math.ceil(currentStreak / 3), 5)
authorityRecoveryDays(currentStreak) ==
    Min((currentStreak + RECOVERY_DIVISOR - 1) \div RECOVERY_DIVISOR,
        AUTHORITY_MAX_RECOVERY)

breakHabitStreak(streakData, now) ==
    IF streakData.current = 0 THEN streakData
    ELSE [streakData EXCEPT
            !.current = 0,
            !.best = Max(streakData.current, streakData.best),
            !.lastBroken = now,
            !.recoveryDays = authorityRecoveryDays(streakData.current)]

\* updateHabitStreak(habitId, dayLog, streakData, settings); `now` is the date of
\* new Date().
updateHabitStreak(habitId, dayLog, streakData, cfg, now) ==
    IF ~streakEnabled(habitId) THEN streakData
    ELSE IF cfg.enabled[habitId] = "false" THEN streakData
    ELSE IF ~dayLog.finalized THEN streakData
    ELSE LET isComplete == DayStateMachine_isHabitComplete(habitId, dayLog, cfg) IN
         IF streakData.recoveryDays > 0
         THEN IF isComplete
              THEN [streakData EXCEPT
                      !.recoveryDays = streakData.recoveryDays - 1,
                      !.current = IF streakData.recoveryDays - 1 = 0 THEN 1
                                  ELSE streakData.current,
                      !.lastUpdated = now]
              ELSE streakData
         ELSE IF isComplete
         THEN [streakData EXCEPT
                 !.current = streakData.current + 1,
                 !.best = Max(streakData.current + 1, streakData.best),
                 !.lastUpdated = now]
         ELSE breakHabitStreak(streakData, now)

----------------------------------------------------------------------------
(* Records and configurations *)

\* createTodayLog: the record of a day nobody has touched yet.
emptyLog(date, cfg) ==
    [ date |-> date, wakeUp |-> cfg.wakeupTarget, sleptOnTime |-> "null",
      learningDone |-> FALSE, learningHours |-> 0, workout |-> FALSE,
      screenTime |-> 0, mits |-> 0, mitsDone |-> 0, archived |-> FALSE,
      finalized |-> FALSE, finalizedAt |-> NoDate, finalState |-> "null" ]

\* SettingsAuthority.defaults together with SCHEMA.settings.
defaultSettings ==
    [ enabled |-> [h \in HabitIdSet |-> "true"],
      counts |-> [h \in HabitIdSet |-> "null"],
      minHoursDaily |-> 2,
      sleepTarget |-> DEFAULT_WAKEUP_TARGET,
      wakeupTolerance |-> WAKE_TOLERANCE,
      dailyLimit |-> DEFAULT_SCREEN_GOAL,
      sensitivity |-> "normal",
      wakeupTarget |-> DEFAULT_WAKEUP_TARGET,
      screenTimeGoal |-> DEFAULT_SCREEN_GOAL ]

----------------------------------------------------------------------------
(* dashboardData and localStorage *)

\* The in-memory dashboardData together with the localStorage copy.
dashboardData ==
    [ dailyLogs |-> dailyLogs, streaks |-> streaks, streakHistory |-> streakHistory,
      lifeScore |-> lifeScore, lastActiveDate |-> lastActiveDate,
      settings |-> settings, stored |-> stored ]

\* JSON.stringify(dashboardData)
snapshot(d) ==
    [ present |-> TRUE, dailyLogs |-> d.dailyLogs, streaks |-> d.streaks,
      streakHistory |-> d.streakHistory, lifeScore |-> d.lifeScore,
      lastActiveDate |-> d.lastActiveDate,
      wakeupTarget |-> d.settings.wakeupTarget,
      screenTimeGoal |-> d.settings.screenTimeGoal ]

\* SCHEMA: dashboardData of a fresh installation, nothing in localStorage.
SCHEMA ==
    [ dailyLogs |-> <<>>, streaks |-> [h \in StreakHabitSet |-> 0],
      streakHistory |-> [h \in StreakHabitSet |->
                           [best |-> 0, lastBroken |-> NoDate, recoveryDays |-> 0,
                            lastUpdated |-> NoDate]],
      lifeScore |-> 0, lastActiveDate |-> NoDate, settings |-> defaultSettings,
      stored |-> [ present |-> FALSE, dailyLogs |-> <<>>,
                   streaks |-> [h \in StreakHabitSet |-> 0],
                   streakHistory |-> [h \in StreakHabitSet |->
                           [best |-> 0, lastBroken |-> NoDate, recoveryDays |-> 0,
                            lastUpdated |-> NoDate]],
                   lifeScore |-> 0, lastActiveDate |-> NoDate,
                   wakeupTarget |-> DEFAULT_WAKEUP_TARGET,
                   screenTimeGoal |-> DEFAULT_SCREEN_GOAL ] ]

\* notification is the toast that the last handler raised; it hides on its own.
freshDom == [inputsDisabled |-> FALSE, saveBtnDisabled |-> FALSE, notification |-> "none"]

hideToast(dm) == [dm EXCEPT !.notification = "none"]

NoonHour == EveningHour - 6

NightHour == BEDTIME_TARGET_HOUR

\* dailyLogs.find(l => l.date === date): index of the first match, 0 if none.
findLogIndex(logs, date) ==
    IF \E i \in 1..Len(logs) : logs[i].date = date
    THEN CHOOSE i \in 1..Len(logs) :
            /\ logs[i].date = date
            /\ \A j \in 1..(i - 1) : logs[j].date # date
    ELSE 0

hasLog(logs, date) == findLogIndex(logs, date) # 0

findLog(logs, date) == logs[findLogIndex(logs, date)]

\* Array.prototype.sort by date (stable): insertion after the equal dates.
RECURSIVE insertByDate(_, _)
insertByDate(sorted, log) ==
    IF sorted = <<>> THEN <<log>>
    ELSE IF log.date < Head(sorted).date THEN <<log>> \o sorted
         ELSE <<Head(sorted)>> \o insertByDate(Tail(sorted), log)

RECURSIVE trimOldLogs(_)
trimOldLogs(logs) ==
    IF logs = <<>> THEN <<>>
    ELSE insertByDate(trimOldLogs(SubSeq(logs, 1, Len(logs) - 1)), logs[Len(logs)])

saveToStorage(d, t) ==
    LET d1 == [d EXCEPT !.lastActiveDate = t] IN
    [d1 EXCEPT !.stored = snapshot(d1)]

\* Variant without the "log already exists" check.
createTodayLog_alwaysPushes(d, t) ==
    saveToStorage(
        [d EXCEPT !.dailyLogs = trimOldLogs(Append(d.dailyLogs, emptyLog(t, d.settings)))],
        t)

createTodayLog(d, t) ==
    IF hasLog(d.dailyLogs, t) THEN d
    ELSE saveToStorage(
            [d EXCEPT !.dailyLogs = trimOldLogs(Append(d.dailyLogs, emptyLog(t, d.settings)))],
            t)

\* getTodayLog creates the record of the day when it is missing.
getTodayLog(d, t) == createTodayLog(d, t)

todayLogOf(d, t) == findLog(d.dailyLogs, t)

\* Assignment to a field of the record that getTodayLog returned.
setTodayLog(d, t, log) ==
    [d EXCEPT !.dailyLogs[findLogIndex(d.dailyLogs, t)] = log]

----------------------------------------------------------------------------
(* Life score *)

ScoreDenominator == 7 * 10 * 6 * 6

RECURSIVE SumOver(_, _)
SumOver(S, f) ==
    IF S = {} THEN 0
    ELSE LET x == CHOOSE y \in S : TRUE IN f[x] + SumOver(S \ {x}, f)

\* getLast7DaysLogs().filter(l => l.finalized): indexes into dailyLogs.
last7FinalizedIndexes(d, t) ==
    { findLogIndex(d.dailyLogs, date) :
        date \in { x \in (t - (ScoreWindowDays - 1))..t :
                     /\ hasLog(d.dailyLogs, x)
                     /\ findLog(d.dailyLogs, x).finalized } }

\* score - penalties of calculateLifeScore, in units of 1/ScoreDenominator.
lifeScoreNumerator(d, t, currentHour) ==
    LET logs == d.dailyLogs
        idx == last7FinalizedIndexes(d, t)
        n == Cardinality(idx)
        todayLog == todayLogOf(d, t)
        learningDays == Cardinality({i \in idx : logs[i].learningDone})
        workoutDays == Cardinality({i \in idx : logs[i].workout})
        goodSleepDays ==
            Cardinality({i \in idx : /\ logs[i].wakeUp # WakeNull
                                     /\ logs[i].wakeUp - d.settings.wakeupTarget <= WAKE_TOLERANCE})
        screenGoal == d.settings.screenTimeGoal
        screenSum == SumOver(idx, [i \in idx |-> logs[i].screenTime])
        screenPoints == IF screenSum <= screenGoal * n THEN 15
                        ELSE IF 2 * screenSum <= 3 * screenGoal * n THEN 8
                        ELSE IF screenSum <= 2 * screenGoal * n THEN 3
                        ELSE 0
        screenPenalty == IF screenSum <= screenGoal * n THEN 0
                         ELSE IF 2 * screenSum <= 3 * screenGoal * n THEN 0
                         ELSE IF screenSum <= 2 * screenGoal * n THEN 5
                         ELSE 10
        todayScreenPenalty == IF todayLog.screenTime > 5 THEN 8
                              ELSE IF todayLog.screenTime > 3 THEN 3 ELSE 0
        mitRateSixths == SumOver(idx, [i \in idx |->
                            IF logs[i].mits > 0
                            THEN logs[i].mitsDone * (6 \div logs[i].mits) ELSE 0])
        streakBonusTenths == Min(5 * d.streaks["learning"] + 3 * d.streaks["gym"]
                                   + 2 * d.streaks["sleep"], 100)
        totalRecoveryDays == d.streakHistory["learning"].recoveryDays
                               + d.streakHistory["gym"].recoveryDays
                               + d.streakHistory["sleep"].recoveryDays
        learningPenalty == IF currentHour >= EveningHour /\ ~todayLog.learningDone
                           THEN 5 ELSE 0
        sleepPenalty == IF hasLog(logs, t - 1) /\ findLog(logs, t - 1).sleptOnTime = "false"
                        THEN 8 ELSE 0
        score == learningDays * 30 * (ScoreDenominator \div 7)
                   + Min(workoutDays * 4, 20) * ScoreDenominator
                   + goodSleepDays * 20 * (ScoreDenominator \div 7)
                   + screenPoints * ScoreDenominator
                   + mitRateSixths * 15 * ((ScoreDenominator \div 6) \div n)
                   + streakBonusTenths * (ScoreDenominator \div 10)
        penalties == learningPenalty + sleepPenalty + screenPenalty
                       + todayScreenPenalty + 2 * totalRecoveryDays
    IN score - penalties * ScoreDenominator

\* Math.round(x / ScoreDenominator): halves round up.
roundScore(x) == (2 * x + ScoreDenominator) \div (2 * ScoreDenominator)

\* calculateLifeScore reads the record of today through getTodayLog first.
calculateLifeScore(d, t, currentHour) ==
    IF last7FinalizedIndexes(d, t) = {} THEN 0
    ELSE Max(0, Min(100, roundScore(lifeScoreNumerator(d, t, currentHour))))

----------------------------------------------------------------------------
(* Streak evaluation of script.js *)

\* settingsAuthority?.get('nonNegotiables.<h>.enabled') === false
habitDisabled(cfg, h) == cfg.enabled[h] = "false"

updatedStreak_bestNotRaised(current, history, isComplete, t) ==
    IF history.lastUpdated = t THEN [current |-> current, history |-> history]
    ELSE IF history.recoveryDays > 0
    THEN IF isComplete
         THEN [ current |-> IF history.recoveryDays - 1 = 0 THEN 1 ELSE current,
                history |-> [history EXCEPT !.recoveryDays = history.recoveryDays - 1,
                                            !.lastUpdated = t] ]
         ELSE [current |-> current, history |-> [history EXCEPT !.lastUpdated = t]]
    ELSE IF isComplete
    THEN [current |-> current + 1, history |-> [history EXCEPT !.lastUpdated = t]]
    ELSE [current |-> current, history |-> [history EXCEPT !.lastUpdated = t]]

\* The forEach body of validateAndUpdateAllStreaks for one enabled habit.
updatedStreak(current, history, isComplete, t) ==
    IF history.lastUpdated = t THEN [current |-> current, history |-> history]
    ELSE IF history.recoveryDays > 0
    THEN IF isComplete
         THEN [ current |-> IF history.recoveryDays - 1 = 0 THEN 1 ELSE current,
                history |-> [history EXCEPT !.recoveryDays = history.recoveryDays - 1,
                                            !.lastUpdated = t] ]
         ELSE [current |-> current, history |-> [history EXCEPT !.lastUpdated = t]]
    ELSE IF isComplete
    THEN [ current |-> current + 1,
           history |-> [history EXCEPT !.best = Max(history.best, current + 1),
                                       !.lastUpdated = t] ]
    ELSE [current |-> current, history |-> [history EXCEPT !.lastUpdated = t]]

validateAndUpdateAllStreaks_ignoresDisabled(d, t) ==
    LET todayLog == todayLogOf(d, t)
        upd == [h \in StreakHabitSet |->
                  updatedStreak(d.streaks[h], d.streakHistory[h],
                                isHabitValidated(h, todayLog, d.settings), t)]
    IN [d EXCEPT !.streaks = [h \in StreakHabitSet |-> upd[h].current],
                 !.streakHistory = [h \in StreakHabitSet |-> upd[h].history]]

validateAndUpdateAllStreaks(d, t) ==
    LET todayLog == todayLogOf(d, t)
        upd == [h \in StreakHabitSet |->
                  IF habitDisabled(d.settings, h)
                  THEN [current |-> d.streaks[h], history |-> d.streakHistory[h]]
                  ELSE updatedStreak(d.streaks[h], d.streakHistory[h],
                                     isHabitValidated(h, todayLog, d.settings), t)]
    IN [d EXCEPT !.streaks = [h \in StreakHabitSet |-> upd[h].current],
                 !.streakHistory = [h \in StreakHabitSet |-> upd[h].history]]

\* Variant whose strict branch starts the recovery and halves the count.
penalizedStreak_halvesInRecovery(current, history, isComplete, sensitivity, t) ==
    IF isComplete \/ history.lastUpdated = t
    THEN [current |-> current, history |-> history]
    ELSE IF sensitivity = "strict"
    THEN [ current |-> (current + 1) \div 2,
           history |-> [history EXCEPT
                          !.best = IF current > 0 THEN Max(history.best, current)
                                   ELSE history.best,
                          !.lastBroken = t,
                          !.recoveryDays = STRICT_RECOVERY_DAYS,
                          !.lastUpdated = t] ]
    ELSE IF sensitivity = "moderate"
    THEN [ current |-> current \div 2,
           history |-> [history EXCEPT !.lastUpdated = t] ]
    ELSE [current |-> current, history |-> [history EXCEPT !.lastUpdated = t]]

\* The forEach body of applyMissedDayPenalty for one enabled habit.
penalizedStreak(current, history, isComplete, sensitivity, t) ==
    IF isComplete \/ history.lastUpdated = t
    THEN [current |-> current, history |-> history]
    ELSE IF sensitivity = "strict"
    THEN [ current |-> 0,
           history |-> [history EXCEPT
                          !.best = IF current > 0 THEN Max(history.best, current)
                                   ELSE history.best,
                          !.lastBroken = t,
                          !.recoveryDays = STRICT_RECOVERY_DAYS,
                          !.lastUpdated = t] ]
    ELSE IF sensitivity = "moderate"
    THEN [ current |-> current \div 2,
           history |-> [history EXCEPT !.lastUpdated = t] ]
    ELSE [current |-> current, history |-> [history EXCEPT !.lastUpdated = t]]

applyMissedDayPenalty(d, t) ==
    LET todayLog == todayLogOf(d, t)
        upd == [h \in StreakHabitSet |->
                  IF habitDisabled(d.settings, h)
                  THEN [current |-> d.streaks[h], history |-> d.streakHistory[h]]
                  ELSE penalizedStreak(d.streaks[h], d.streakHistory[h],
                                       isHabitValidated(h, todayLog, d.settings),
                                       d.settings.sensitivity, t)]
    IN [d EXCEPT !.streaks = [h \in StreakHabitSet |-> upd[h].current],
                 !.streakHistory = [h \in StreakHabitSet |-> upd[h].history]]

applyScreenTimePunishment(d, hours) ==
    IF hours > d.settings.screenTimeGoal * 2
    THEN [d EXCEPT !.streakHistory =
            [h \in StreakHabitSet |->
               IF d.streakHistory[h].recoveryDays > 0
               THEN [d.streakHistory[h] EXCEPT
                       !.recoveryDays = Min(d.streakHistory[h].recoveryDays + 1,
                                            MAX_PUNISHED_RECOVERY)]
               ELSE d.streakHistory[h]]]
    ELSE d

----------------------------------------------------------------------------
(* Day rollover of script.js *)

archiveDay(d, date) ==
    IF hasLog(d.dailyLogs, date)
    THEN [d EXCEPT !.dailyLogs[findLogIndex(d.dailyLogs, date)].archived = TRUE]
    ELSE d

finalizeDayState(d, date) ==
    IF ~hasLog(d.dailyLogs, date) THEN d
    ELSE IF findLog(d.dailyLogs, date).finalized THEN d
    ELSE [d EXCEPT !.dailyLogs[findLogIndex(d.dailyLogs, date)] =
            [@ EXCEPT !.finalState = DAY_STATES.NOT_COUNTED, !.archived = TRUE]]

\* The placeholder record that handleInactivityGap pushes for a gap day.
gapLog(date) ==
    [ date |-> date, wakeUp |-> WakeNull, sleptOnTime |-> "null",
      learningDone |-> FALSE, learningHours |-> 0, workout |-> FALSE,
      screenTime |-> 0, mits |-> 0, mitsDone |-> 0, archived |-> TRUE,
      finalized |-> FALSE, finalizedAt |-> NoDate,
      finalState |-> DAY_STATES.NOT_COUNTED ]

\* The loop of handleInactivityGap, i counting down to 1.
RECURSIVE pushGapLogs(_, _, _)
pushGapLogs(logs, t, i) ==
    IF i < 1 THEN logs
    ELSE pushGapLogs(IF hasLog(logs, t - i) THEN logs ELSE Append(logs, gapLog(t - i)),
                     t, i - 1)

handleInactivityGap(d, t, daysMissed) ==
    saveToStorage([d EXCEPT !.dailyLogs = pushGapLogs(d.dailyLogs, t, daysMissed - 1)], t)

handleDayTransition(d, t) ==
    IF d.lastActiveDate = NoDate THEN createTodayLog(d, t)
    ELSE LET daysMissed == t - d.lastActiveDate IN
         IF daysMissed > 0
         THEN LET d1 == finalizeDayState(archiveDay(d, d.lastActiveDate), d.lastActiveDate)
                  d2 == IF daysMissed > 1 THEN handleInactivityGap(d1, t, daysMissed) ELSE d1
              IN createTodayLog(d2, t)
         ELSE createTodayLog(d, t)

----------------------------------------------------------------------------
(* Dashboard refresh of script.js *)

updateYearStats(d, t, currentHour) ==
    LET d1 == getTodayLog(d, t) IN
    [d1 EXCEPT !.lifeScore = calculateLifeScore(d1, t, currentHour)]

\* updateDashboard: updateYearStats, then updateStreaks saves to storage.
updateDashboard(d, t, currentHour) == saveToStorage(updateYearStats(d, t, currentHour), t)

\* lockDailyInputs / updateDayStateDisplay: the DOM after a refresh.
lockedDom(dm, d, t) ==
    IF hasLog(d.dailyLogs, t) /\ todayLogOf(d, t).finalized
    THEN [dm EXCEPT !.inputsDisabled = TRUE, !.saveBtnDisabled = TRUE]
    ELSE dm

\* updateDayStateDisplay alone only touches the save button.
displayedDom(dm, d, t) ==
    IF hasLog(d.dailyLogs, t) /\ todayLogOf(d, t).finalized
    THEN [dm EXCEPT !.saveBtnDisabled = TRUE]
    ELSE dm

----------------------------------------------------------------------------
(* SpecPure: the classifiers on records and configurations from bounded sets *)

PureWakeTimes ==
    {WakeNull, DEFAULT_WAKEUP_TARGET, DEFAULT_WAKEUP_TARGET + WAKE_TOLERANCE,
     DEFAULT_WAKEUP_TARGET + WAKE_TOLERANCE + 1}

PureScreenTimes == {0, DEFAULT_SCREEN_GOAL, DEFAULT_SCREEN_GOAL + 1}

PureLogs ==
    { [emptyLog(FirstDay, defaultSettings) EXCEPT
          !.finalized = f, !.learningDone = ld, !.learningHours = lh, !.workout = w,
          !.wakeUp = wk, !.screenTime = st, !.mitsDone = md, !.mits = md] :
        f \in BOOLEAN, ld \in BOOLEAN, lh \in 0..MaxHours, w \in BOOLEAN,
        wk \in PureWakeTimes, st \in PureScreenTimes, md \in {0, NumMits} }

PureEnabled == [HabitIdSet -> {"true", "false"}] \cup {[h \in HabitIdSet |-> "null"]}

PureCounts ==
    {[h \in HabitIdSet |-> "null"],
     [h \in HabitIdSet |-> IF h = "screenTime" THEN "false" ELSE "null"]}

PureConfigs ==
    { [defaultSettings EXCEPT !.enabled = en, !.counts = ct, !.minHoursDaily = mh] :
        en \in PureEnabled, ct \in PureCounts, mh \in {0, MaxHours} }

PureNone == [op |-> "none", state |-> "none", missing |-> <<>>]

appIdle ==
    /\ today = FirstDay
    /\ dailyLogs = <<>>
    /\ streaks = [h \in StreakHabitSet |-> 0]
    /\ streakHistory = [h \in StreakHabitSet |->
                           [best |-> 0, lastBroken |-> NoDate, recoveryDays |-> 0,
                            lastUpdated |-> NoDate]]
    /\ lifeScore = 0
    /\ lastActiveDate = NoDate
    /\ settings = defaultSettings
    /\ stored = SCHEMA.stored
    /\ useBackend = FALSE
    /\ pending = {}
    /\ dom = freshDom
    /\ clockHour = NoonHour
    /\ rejects = 0

pureIdle ==
    /\ pureIn = [log |-> emptyLog(FirstDay, defaultSettings), cfg |-> defaultSettings]
    /\ pureOut = PureNone

backendIdle ==
    /\ bStreaks = <<>>
    /\ bLogs = <<>>
    /\ bMigrated = FALSE

PureInit ==
    /\ appIdle
    /\ backendIdle
    /\ pureIn \in [log : PureLogs, cfg : PureConfigs]
    /\ pureOut = PureNone

PureCalculateDayState ==
    /\ pureOut' = [op |-> "calculateDayState",
                   state |-> calculateDayState(pureIn.log, pureIn.cfg),
                   missing |-> <<>>]
    /\ UNCHANGED pureIn

PureCalculateState ==
    /\ pureOut' = [op |-> "DayStateMachine.calculateState",
                   state |-> DayStateMachine_calculateState(pureIn.log, pureIn.cfg),
                   missing |-> <<>>]
    /\ UNCHANGED pureIn

PurePreviewFinalState ==
    /\ LET preview == previewFinalState(pureIn.log, pureIn.cfg) IN
       pureOut' = [op |-> "previewFinalState", state |-> preview.state,
                   missing |-> preview.missingHabits]
    /\ UNCHANGED pureIn

\* The classification step of saveNow: set finalized, then calculateDayState.
PureFinalize ==
    /\ ~pureIn.log.finalized
    /\ LET log == [pureIn.log EXCEPT !.finalized = TRUE] IN
       /\ pureIn' = [pureIn EXCEPT !.log = log]
       /\ pureOut' = [op |-> "finalize", state |-> calculateDayState(log, pureIn.cfg),
                      missing |-> <<>>]

PureGetUIState ==
    /\ pureOut' = [op |-> "getUIState", state |-> getUIState(pureIn.log, pureIn.cfg),
                   missing |-> <<>>]
    /\ UNCHANGED pureIn

PureNext ==
    /\ \/ PureCalculateDayState
       \/ PureCalculateState
       \/ PurePreviewFinalState
       \/ PureFinalize
       \/ PureGetUIState
    /\ UNCHANGED appVars
    /\ UNCHANGED backendVars

SpecPure == PureInit /\ [][PureNext]_vars

----------------------------------------------------------------------------
(* SpecEvaluate: one habit's streak evaluated for one finalized record, by
   validateAndUpdateAllStreaks of script.js or by HabitStreakAuthority *)

MaxEvaluations == 2

EvalLogs ==
    { [emptyLog(FirstDay, defaultSettings) EXCEPT
          !.finalized = TRUE, !.finalizedAt = FirstDay,
          !.learningDone = ld, !.learningHours = IF ld THEN MaxHours ELSE 0,
          !.workout = w, !.wakeUp = wk] :
        ld \in BOOLEAN, w \in BOOLEAN,
        wk \in {DEFAULT_WAKEUP_TARGET, DEFAULT_WAKEUP_TARGET + WAKE_TOLERANCE + 1} }

EvalConfigs ==
    { [defaultSettings EXCEPT !.enabled["gym"] = g] : g \in {"true", "false"} }

\* Streak states: running (no recovery) or in recovery with a count of 0;
\* last evaluated never, the day before, or on the record's date.
EvalStreaks ==
    { [current |-> c, best |-> MaxStreak, recoveryDays |-> r,
       lastBroken |-> IF r > 0 THEN EarlierDay ELSE NoDate, lastUpdated |-> u] :
        c \in 0..(MaxStreak - 1), r \in 0..MaxGap,
        u \in {NoDate, FirstDay - 1, FirstDay} }

EvalEngines == {"validateAndUpdateAllStreaks", "updateHabitStreak"}

EvalInit ==
    /\ appIdle
    /\ backendIdle
    /\ \E log \in EvalLogs, cfg \in EvalConfigs, h \in StreakHabitSet,
          sd \in EvalStreaks, e \in EvalEngines :
          /\ sd.recoveryDays > 0 => sd.current = 0
          /\ pureIn = [log |-> log, cfg |-> cfg, habitId |-> h, streak |-> sd,
                       engine |-> e]
          /\ pureOut = [evaluations |-> 0, before |-> sd, once |-> sd]

\* what the evaluation of pureIn.engine makes of the streak
evaluated(in) ==
    IF in.engine = "updateHabitStreak"
    THEN updateHabitStreak(in.habitId, in.log, in.streak, in.cfg, in.log.date)
    ELSE IF habitDisabled(in.cfg, in.habitId) THEN in.streak
    ELSE LET upd == updatedStreak(in.streak.current,
                        [best |-> in.streak.best, lastBroken |-> in.streak.lastBroken,
                         recoveryDays |-> in.streak.recoveryDays,
                         lastUpdated |-> in.streak.lastUpdated],
                        isHabitValidated(in.habitId, in.log, in.cfg), in.log.date)
         IN [current |-> upd.current, best |-> upd.history.best,
             recoveryDays |-> upd.history.recoveryDays,
             lastBroken |-> upd.history.lastBroken,
             lastUpdated |-> upd.history.lastUpdated]

recordEvaluation(result) ==
    [pureOut EXCEPT !.evaluations = pureOut.evaluations + 1,
                    !.once = IF pureOut.evaluations = 0 THEN result ELSE pureOut.once]

\* validateAndUpdateAllStreaks runs (again) for the record's date.
EvaluateStreak ==
    /\ pureIn.engine = "validateAndUpdateAllStreaks"
    /\ pureOut.evaluations < MaxEvaluations
    /\ pureIn' = [pureIn EXCEPT !.streak = evaluated(pureIn)]
    /\ pureOut' = recordEvaluation(evaluated(pureIn))

\* HabitSystem.updateStreak runs (again) for the record's date.
EvaluateHabitStreak ==
    /\ pureIn.engine = "updateHabitStreak"
    /\ pureOut.evaluations < MaxEvaluations
    /\ pureIn' = [pureIn EXCEPT !.streak = evaluated(pureIn)]
    /\ pureOut' = recordEvaluation(evaluated(pureIn))

EvalNext ==
    /\ \/ EvaluateStreak
       \/ EvaluateHabitStreak
    /\ UNCHANGED appVars
    /\ UNCHANGED backendVars

SpecEvaluate == EvalInit /\ [][EvalNext]_vars

----------------------------------------------------------------------------
(* Page load of script.js *)

\* loadFromStorage: the saved dashboardData merged into SCHEMA, then the day
\* transition; the SettingsAuthority settings are stored on their own.
loadFromStorage(saved, cfg, t) ==
    IF saved.present
    THEN handleDayTransition(
            [ dailyLogs |-> saved.dailyLogs, streaks |-> saved.streaks,
              streakHistory |-> saved.streakHistory, lifeScore |-> saved.lifeScore,
              lastActiveDate |-> saved.lastActiveDate,
              settings |-> [cfg EXCEPT !.wakeupTarget = saved.wakeupTarget,
                                       !.screenTimeGoal = saved.screenTimeGoal],
              stored |-> saved ], t)
    ELSE createTodayLog([SCHEMA EXCEPT !.settings =
                            [cfg EXCEPT !.wakeupTarget = DEFAULT_WAKEUP_TARGET,
                                        !.screenTimeGoal = DEFAULT_SCREEN_GOAL]], t)

\* The DOMContentLoaded handler without a backend.
pageLoad(saved, cfg, t, currentHour) ==
    updateDashboard(loadFromStorage(saved, cfg, t), t, currentHour)

----------------------------------------------------------------------------
(* States of localStorage that earlier sessions leave behind *)

completedLog(date) ==
    [emptyLog(date, defaultSettings) EXCEPT
        !.learningDone = TRUE, !.learningHours = MaxHours, !.workout = TRUE,
        !.finalized = TRUE, !.finalizedAt = date, !.finalState = DAY_STATES.COMPLETED]

\* Streaks running, yesterday finalized as COMPLETED, older records deleted.
runningData ==
    LET d == [SCHEMA EXCEPT
                !.dailyLogs = <<completedLog(FirstDay - 1)>>,
                !.streaks = [h \in StreakHabitSet |->
                               IF h = "sleep" THEN MaxStreak ELSE MaxStreak - 1],
                !.streakHistory = [h \in StreakHabitSet |->
                               [best |-> MaxStreak, lastBroken |-> NoDate,
                                recoveryDays |-> 0, lastUpdated |-> FirstDay - 1]],
                !.lastActiveDate = FirstDay - 1]
    IN [d EXCEPT !.lifeScore = calculateLifeScore(d, FirstDay - 1, NoonHour)]

\* Two habits in recovery after strict breaks; last active MaxGap days ago with
\* a record that was filled in but never finalized; older records deleted.
recoveringData ==
    [SCHEMA EXCEPT
        !.dailyLogs = <<[emptyLog(FirstDay - MaxGap, defaultSettings) EXCEPT
                           !.learningDone = TRUE, !.learningHours = MaxHours]>>,
        !.streaks = [h \in StreakHabitSet |-> IF h = "sleep" THEN MaxStreak ELSE 0],
        !.streakHistory = [h \in StreakHabitSet |->
            [best |-> MaxStreak,
             lastBroken |-> IF h = "sleep" THEN NoDate ELSE EarlierDay,
             recoveryDays |-> IF h = "learning" THEN 1 ELSE IF h = "gym" THEN 2 ELSE 0,
             lastUpdated |-> EarlierDay]],
        !.lastActiveDate = FirstDay - MaxGap]

StoredProfiles == {SCHEMA.stored, snapshot(runningData), snapshot(recoveringData)}

\* The settings that SettingsAuthority.init finds in its own storage.
StoredSettings == {defaultSettings, [defaultSettings EXCEPT !.sensitivity = "strict"]}

----------------------------------------------------------------------------
(* Spec: the browser application *)

Commit(d) ==
    /\ dailyLogs' = d.dailyLogs
    /\ streaks' = d.streaks
    /\ streakHistory' = d.streakHistory
    /\ lifeScore' = d.lifeScore
    /\ lastActiveDate' = d.lastActiveDate
    /\ settings' = d.settings
    /\ stored' = d.stored

Init ==
    /\ today = FirstDay
    /\ clockHour = NoonHour
    /\ rejects = 0
    /\ pending = {}
    /\ \E saved \in StoredProfiles, cfg \in StoredSettings, backend \in BOOLEAN :
         /\ backend => ~saved.present
         /\ useBackend = backend
         /\ LET d == pageLoad(saved, cfg, FirstDay, NoonHour) IN
            /\ dailyLogs = d.dailyLogs
            /\ streaks = d.streaks
            /\ streakHistory = d.streakHistory
            /\ lifeScore = d.lifeScore
            /\ lastActiveDate = d.lastActiveDate
            /\ settings = d.settings
            /\ stored = d.stored
            /\ dom = lockedDom(freshDom, d, FirstDay)
    /\ pureIdle
    /\ backendIdle

WakeInputs == {DEFAULT_WAKEUP_TARGET, DEFAULT_WAKEUP_TARGET + WAKE_TOLERANCE + 1}

ScreenInputs == {0, 2 * DEFAULT_SCREEN_GOAL + 1}

HoursInputs == {0, MaxHours}

\* A change handler of the daily routine: store the field, save, redraw.
enterField(log) ==
    LET d1 == setTodayLog(getTodayLog(dashboardData, today), today, log) IN
    saveToStorage(d1, today)

currentLog == todayLogOf(getTodayLog(dashboardData, today), today)

\* validateAndUpdateLearning, then updateLearningStatus when the toggle stands.
UpdateLearningStatus ==
    /\ ~dom.inputsDisabled
    /\ habitEnabled(settings, "learning")
    /\ \E isDone \in BOOLEAN, valid \in BOOLEAN :
         IF isDone /\ ~valid
         THEN /\ Commit(getTodayLog(dashboardData, today))
              /\ dom' = hideToast(dom)
         ELSE LET d == enterField([currentLog EXCEPT !.learningDone = isDone]) IN
              /\ Commit(d)
              /\ dom' = hideToast(displayedDom(dom, d, today))
    /\ UNCHANGED <<today, useBackend, pending, clockHour, rejects>>

UpdateLearningHours ==
    /\ ~dom.inputsDisabled
    /\ habitEnabled(settings, "learning")
    /\ \E hours \in HoursInputs :
         LET d == enterField([currentLog EXCEPT !.learningHours = hours]) IN
         /\ Commit(d)
         /\ dom' = hideToast(displayedDom(dom, d, today))
    /\ UNCHANGED <<today, useBackend, pending, clockHour, rejects>>

\* validateAndUpdateWorkout, then updateWorkoutStatus when the toggle stands.
UpdateWorkoutStatus ==
    /\ ~dom.inputsDisabled
    /\ habitEnabled(settings, "gym")
    /\ \E isDone \in BOOLEAN, valid \in BOOLEAN :
         IF isDone /\ ~valid
         THEN /\ Commit(getTodayLog(dashboardData, today))
              /\ dom' = hideToast(dom)
         ELSE LET d == enterField([currentLog EXCEPT !.workout = isDone]) IN
              /\ Commit(d)
              /\ dom' = hideToast(displayedDom(dom, d, today))
    /\ UNCHANGED <<today, useBackend, pending, clockHour, rejects>>

UpdateWakeupTime ==
    /\ ~dom.inputsDisabled
    /\ habitEnabled(settings, "sleep")
    /\ \E newWakeupTime \in WakeInputs :
         LET d0 == getTodayLog(dashboardData, today)
             d1 == setTodayLog(d0, today, [todayLogOf(d0, today) EXCEPT !.wakeUp = newWakeupTime])
             d == saveToStorage([d1 EXCEPT !.settings.wakeupTarget = newWakeupTime], today)
         IN /\ Commit(d)
            /\ dom' = [displayedDom(dom, d, today) EXCEPT !.notification = "wakeup-updated"]
    /\ UNCHANGED <<today, useBackend, pending, clockHour, rejects>>

UpdateScreenTime ==
    /\ ~dom.inputsDisabled
    /\ habitEnabled(settings, "screenTime")
    /\ \E value \in ScreenInputs :
         LET d0 == getTodayLog(dashboardData, today)
             d1 == setTodayLog(d0, today, [todayLogOf(d0, today) EXCEPT !.screenTime = value])
             d == saveToStorage(applyScreenTimePunishment(d1, value), today)
         IN /\ Commit(d)
            /\ dom' = hideToast(displayedDom(dom, d, today))
    /\ UNCHANGED <<today, useBackend, pending, clockHour, rejects>>

----------------------------------------------------------------------------
(* Finalize: saveNow *)

\* saveNow with the life score computed before the streak update.
finalizeToday_scoresBeforeStreaks(d, t, currentHour) ==
    LET log == [todayLogOf(d, t) EXCEPT !.finalized = TRUE, !.finalizedAt = t]
        dayState == calculateDayState(log, d.settings)
        d1 == setTodayLog(d, t, [log EXCEPT !.finalState = dayState])
        d2 == IF dayState = DAY_STATES.COMPLETED THEN validateAndUpdateAllStreaks(d1, t)
              ELSE IF dayState = DAY_STATES.MISSED THEN applyMissedDayPenalty(d1, t)
              ELSE d1
        d3 == [d2 EXCEPT !.lifeScore = calculateLifeScore(d1, t, currentHour),
                         !.lastActiveDate = t]
    IN [d3 EXCEPT !.stored = snapshot(d3)]

\* saveNow finalizing every open record of the list, not only today's.
finalizeToday_finalizesOpenRecords(d, t, currentHour) ==
    LET log == [todayLogOf(d, t) EXCEPT !.finalized = TRUE, !.finalizedAt = t]
        dayState == calculateDayState(log, d.settings)
        d0 == [d EXCEPT !.dailyLogs =
                 [i \in 1..Len(d.dailyLogs) |->
                    IF d.dailyLogs[i].finalized THEN d.dailyLogs[i]
                    ELSE [d.dailyLogs[i] EXCEPT !.finalized = TRUE, !.finalizedAt = t,
                                                !.finalState = DAY_STATES.MISSED]]]
        d1 == setTodayLog(d0, t, [log EXCEPT !.finalState = dayState])
        d2 == IF dayState = DAY_STATES.COMPLETED THEN validateAndUpdateAllStreaks(d1, t)
              ELSE IF dayState = DAY_STATES.MISSED THEN applyMissedDayPenalty(d1, t)
              ELSE d1
        d3 == [d2 EXCEPT !.lifeScore = calculateLifeScore(d2, t, currentHour),
                         !.lastActiveDate = t]
    IN [d3 EXCEPT !.stored = snapshot(d3)]

\* The try block of saveNow up to the localStorage write.
finalizeToday(d, t, currentHour) ==
    LET log == [todayLogOf(d, t) EXCEPT !.finalized = TRUE, !.finalizedAt = t]
        dayState == calculateDayState(log, d.settings)
        d1 == setTodayLog(d, t, [log EXCEPT !.finalState = dayState])
        d2 == IF dayState = DAY_STATES.COMPLETED THEN validateAndUpdateAllStreaks(d1, t)
              ELSE IF dayState = DAY_STATES.MISSED THEN applyMissedDayPenalty(d1, t)
              ELSE d1
        d3 == [d2 EXCEPT !.lifeScore = calculateLifeScore(d2, t, currentHour),
                         !.lastActiveDate = t]
    IN [d3 EXCEPT !.stored = snapshot(d3)]

\* The rest of the try block: lockDailyInputs, updateDashboard.
finishSaveNow(d, t, currentHour) == updateDashboard(getTodayLog(d, t), t, currentHour)

\* The button is disabled by lockDailyInputs, or three seconds later by the
\* reset timer when the record that was finalized is still finalized.
savedDom(dm, d, t, date) ==
    [lockedDom(dm, d, t) EXCEPT
        !.saveBtnDisabled = \/ lockedDom(dm, d, t).saveBtnDisabled
                            \/ (hasLog(d.dailyLogs, date) /\ findLog(d.dailyLogs, date).finalized),
        !.notification = "day-finalized"]

SaveNow_withoutFinalizedGuard ==
    /\ ~dom.saveBtnDisabled
    /\ LET d0 == getTodayLog(dashboardData, today) IN
       IF useBackend
       THEN /\ Commit(finalizeToday(d0, today, clockHour))
            /\ pending' = pending \cup {today}
            /\ dom' = hideToast(dom)
       ELSE LET d == finishSaveNow(finalizeToday(d0, today, clockHour), today, clockHour) IN
            /\ Commit(d)
            /\ dom' = savedDom(dom, d, today, today)
            /\ UNCHANGED pending
    /\ UNCHANGED <<today, useBackend, clockHour, rejects>>

\* A click on the Finalize button, up to the first await.
SaveNow ==
    /\ ~dom.saveBtnDisabled
    /\ LET d0 == getTodayLog(dashboardData, today) IN
       IF todayLogOf(d0, today).finalized
       THEN /\ Commit(d0)
            /\ dom' = [dom EXCEPT !.notification = "already-finalized"]
            /\ UNCHANGED pending
       ELSE IF useBackend
       THEN /\ Commit(finalizeToday(d0, today, clockHour))
            /\ pending' = pending \cup {today}
            /\ dom' = hideToast(dom)
       ELSE LET d == finishSaveNow(finalizeToday(d0, today, clockHour), today, clockHour) IN
            /\ Commit(d)
            /\ dom' = savedDom(dom, d, today, today)
            /\ UNCHANGED pending
    /\ UNCHANGED <<today, useBackend, clockHour, rejects>>

\* saveToBackendSync resolved: saveNow resumes after the await.
SaveNowResolved ==
    \E date \in pending :
        /\ pending' = pending \ {date}
        /\ LET d == finishSaveNow(dashboardData, today, clockHour) IN
           /\ Commit(d)
           /\ dom' = savedDom(dom, d, today, date)
        /\ UNCHANGED <<today, useBackend, clockHour, rejects>>

\* saveToBackendSync rejected: the catch block of saveNow.
SaveNowRejected ==
    \E date \in pending :
        /\ rejects < MaxRejects
        /\ rejects' = rejects + 1
        /\ pending' = pending \ {date}
        /\ IF hasLog(dailyLogs, date)
           THEN Commit([dashboardData EXCEPT
                          !.dailyLogs[findLogIndex(dailyLogs, date)].finalized = FALSE])
           ELSE Commit(dashboardData)
        /\ dom' = [dom EXCEPT !.notification = "finalize-failed"]
        /\ UNCHANGED <<today, useBackend, clockHour>>

----------------------------------------------------------------------------
(* Settings, timers, clock, reload, history *)

SettingsChoices ==
    { [enabled |-> [h \in HabitIdSet |-> IF h = "gym" THEN gym ELSE "true"],
       sensitivity |-> sens] :
        gym \in {"true", "false"}, sens \in {"normal", "strict"} }

SaveSettings ==
    /\ \E choice \in SettingsChoices :
         LET d == getTodayLog([dashboardData EXCEPT
                                 !.settings.enabled = choice.enabled,
                                 !.settings.sensitivity = choice.sensitivity], today)
         IN /\ Commit(d)
            /\ dom' = [displayedDom(dom, d, today) EXCEPT !.notification = "settings-saved"]
    /\ UNCHANGED <<today, useBackend, pending, clockHour, rejects>>

\* setInterval(saveToStorage, 30000)
AutoSave ==
    /\ Commit(saveToStorage(dashboardData, today))
    /\ dom' = hideToast(dom)
    /\ UNCHANGED <<today, useBackend, pending, clockHour, rejects>>

\* setInterval(updateDashboard, 300000)
PeriodicRefresh ==
    /\ LET d == updateDashboard(dashboardData, today, clockHour) IN
       /\ Commit(d)
       /\ dom' = hideToast(lockedDom(dom, d, today))
    /\ UNCHANGED <<today, useBackend, pending, clockHour, rejects>>

\* startDayChangeWatcher: the tick that detects a new day.
DayChangeWatcher ==
    /\ IF hasLog(dailyLogs, today) THEN findLog(dailyLogs, today).archived ELSE TRUE
    /\ LET d == updateDashboard(handleDayTransition(dashboardData, today), today, clockHour) IN
       /\ Commit(d)
       /\ dom' = hideToast(lockedDom(dom, d, today))
    /\ UNCHANGED <<today, useBackend, pending, clockHour, rejects>>

\* Midnight passes.
Tick ==
    /\ today < LastDay
    /\ today' = today + 1
    /\ clockHour' = NoonHour
    /\ dom' = hideToast(dom)
    /\ UNCHANGED <<dailyLogs, streaks, streakHistory, lifeScore, lastActiveDate,
                   settings, stored, useBackend, pending, rejects>>

\* The clock passes the evening hour and the bedtime target.
Evening ==
    /\ clockHour = NoonHour
    /\ clockHour' = NightHour
    /\ dom' = hideToast(dom)
    /\ UNCHANGED <<today, dailyLogs, streaks, streakHistory, lifeScore, lastActiveDate,
                   settings, stored, useBackend, pending, rejects>>

\* The page is loaded again from localStorage.
Reload ==
    /\ ~useBackend
    /\ LET d == pageLoad(stored, settings, today, clockHour) IN
       /\ Commit(d)
       /\ dom' = lockedDom(freshDom, d, today)
    /\ pending' = {}
    /\ UNCHANGED <<today, useBackend, clockHour, rejects>>

removeAt(logs, i) == SubSeq(logs, 1, i - 1) \o SubSeq(logs, i + 1, Len(logs))

DeleteDayLog ==
    /\ \E dateStr \in {dailyLogs[i].date : i \in 1..Len(dailyLogs)} :
         IF dateStr = today
         THEN /\ Commit(dashboardData)
              /\ dom' = [dom EXCEPT !.notification = "cannot-delete-today"]
         ELSE LET d1 == [dashboardData EXCEPT
                           !.dailyLogs = removeAt(dailyLogs, findLogIndex(dailyLogs, dateStr))]
                  d == updateDashboard(saveToStorage(d1, today), today, clockHour)
              IN /\ Commit(d)
                 /\ dom' = [lockedDom(dom, d, today) EXCEPT !.notification = "log-deleted"]
    /\ UNCHANGED <<today, useBackend, pending, clockHour, rejects>>

\* Spec follows the application over several days, with or without a
\* backend; the user enters the learning and workout fields.
Next ==
    /\ \/ UpdateLearningStatus
       \/ UpdateLearningHours
       \/ UpdateWorkoutStatus
       \/ SaveNow
       \/ SaveNowResolved
       \/ SaveNowRejected
       \/ AutoSave
       \/ PeriodicRefresh
       \/ DayChangeWatcher
       \/ Tick
       \/ Reload
    /\ UNCHANGED pureVars
    /\ UNCHANGED backendVars

Spec == Init /\ [][Next]_vars

\* SpecDay follows one calendar day without a backend, with every handler of
\* the daily routine.
InitDay == Init /\ ~useBackend /\ settings = defaultSettings

NextDay ==
    /\ \/ UpdateLearningStatus
       \/ UpdateLearningHours
       \/ UpdateWorkoutStatus
       \/ UpdateWakeupTime
       \/ UpdateScreenTime
       \/ SaveNow
       \/ SaveSettings
       \/ AutoSave
       \/ PeriodicRefresh
       \/ Evening
       \/ Reload
       \/ DeleteDayLog
    /\ UNCHANGED pureVars
    /\ UNCHANGED backendVars

SpecDay == InitDay /\ [][NextDay]_vars

----------------------------------------------------------------------------
(* SpecFinalize: saveNow on a day's record, from the states of localStorage
   that a session of data entry leaves behind *)

\* Today's record as data entry left it: the wake time is the target.
FinalizeLogs ==
    { [emptyLog(FirstDay, defaultSettings) EXCEPT
          !.learningDone = ld, !.learningHours = IF ld THEN MaxHours ELSE 0,
          !.workout = w, !.screenTime = st] :
        ld \in BOOLEAN, w \in BOOLEAN, st \in {0, DEFAULT_SCREEN_GOAL + 1} }

\* One habit's streak: running with recoveryDays 0, or in recovery at count 0.
FinalizeStreaks ==
    { [current |-> c, recoveryDays |-> r] :
        c \in 0..(MaxStreak - 1), r \in 0..MaxGap } \
    { [current |-> c, recoveryDays |-> r] : c \in 1..(MaxStreak - 1), r \in 1..MaxGap }

finalizeProfile(log, sd, evaluatedOn) ==
    snapshot([SCHEMA EXCEPT
        !.dailyLogs = <<log>>,
        !.streaks = [h \in StreakHabitSet |-> sd[h].current],
        !.streakHistory = [h \in StreakHabitSet |->
            [best |-> MaxStreak - 1,
             lastBroken |-> IF sd[h].recoveryDays > 0 THEN EarlierDay ELSE NoDate,
             recoveryDays |-> sd[h].recoveryDays,
             lastUpdated |-> evaluatedOn]],
        !.lastActiveDate = log.date])

\* Every sensitivity; no habit switched off, or one of the streak habits.
FinalizeSettings ==
    { [defaultSettings EXCEPT
          !.sensitivity = s,
          !.enabled = [h \in HabitIdSet |-> IF h = off THEN "false" ELSE "true"]] :
        s \in {"normal", "strict", "moderate", "lenient"},
        off \in {"none", "learning", "gym", "sleep"} }

InitFinalize ==
    /\ \E log \in FinalizeLogs, sd \in [StreakHabitSet -> FinalizeStreaks],
          evaluatedOn \in {NoDate, FirstDay - 1}, cfg \in FinalizeSettings :
          LET d == pageLoad(finalizeProfile(log, sd, evaluatedOn), cfg, FirstDay, NoonHour)
          IN /\ dailyLogs = d.dailyLogs
             /\ streaks = d.streaks
             /\ streakHistory = d.streakHistory
             /\ lifeScore = d.lifeScore
             /\ lastActiveDate = d.lastActiveDate
             /\ settings = d.settings
             /\ stored = d.stored
             /\ dom = lockedDom(freshDom, d, FirstDay)
    /\ today = FirstDay
    /\ useBackend = FALSE
    /\ pending = {}
    /\ clockHour = NoonHour
    /\ rejects = 0
    /\ pureIdle
    /\ backendIdle

NextFinalize ==
    /\ \/ SaveNow
       \/ PeriodicRefresh
    /\ UNCHANGED pureVars
    /\ UNCHANGED backendVars

SpecFinalize == InitFinalize /\ [][NextFinalize]_vars

----------------------------------------------------------------------------
(* SpecBackend: the streak table of the backend (database.js, server.js) *)

BackendStreakTypes == {"learning", "workout", "sleep", "screen"}

\* initializeDefaults: one row per streak type, created on the day the server
\* first starts.
initializeDefaults(t) ==
    [type \in BackendStreakTypes |->
        [current_count |-> 0, best_count |-> 0, last_activity_date |-> t,
         broken_at |-> NoDate, recovery_days |-> 0]]

\* getDayLog: the row of a date, or null
hasDayLog(logs, date) == date \in DOMAIN logs

\* saveDayLog: upsert by date; only the columns the streak check reads are kept
saveDayLog(logs, date, data) ==
    [d \in (DOMAIN logs) \cup {date} |->
        IF d = date
        THEN [wakeup_time |-> data.wakeupTime,
              learning_done |-> IF data.learningDone THEN 1 ELSE 0,
              workout_done |-> IF data.workoutDone THEN 1 ELSE 0,
              screen_time |-> data.screenTime]
        ELSE logs[d]]

\* updateStreak(type, data): data.current_count is always given by the callers
\* modelled here; a lastActivity or brokenAt of NoDate stands for a missing field.
updateStreak(rows, type, t, count, lastActivity, brokenAt, recoveryDays) ==
    [rows EXCEPT ![type] =
        [current_count |-> count,
         best_count |-> Max(count, rows[type].best_count),
         last_activity_date |-> IF lastActivity = NoDate THEN t ELSE lastActivity,
         broken_at |-> brokenAt,
         recovery_days |-> recoveryDays]]

incrementStreak(rows, type, t) ==
    LET current == rows[type] IN
    IF current.last_activity_date = t THEN rows
    ELSE updateStreak(rows, type, t,
            IF current.last_activity_date = t - 1 \/ current.current_count = 0
            THEN current.current_count + 1 ELSE 1,
            t, NoDate, 0)

breakStreak(rows, type, t) ==
    updateStreak(rows, type, t, 0, NoDate, t, BACKEND_RECOVERY_DAYS)

\* hadActivity of checkStreakDayTransition, from yesterday's row
hadActivity(logs, type, yesterday) ==
    /\ hasDayLog(logs, yesterday)
    /\ LET yesterdayLog == logs[yesterday] IN
       CASE type = "learning" -> yesterdayLog.learning_done = 1
         [] type = "workout"  -> yesterdayLog.workout_done = 1
         [] type = "sleep"    -> /\ yesterdayLog.wakeup_time # WakeNull
                                 /\ yesterdayLog.wakeup_time <= BACKEND_WAKE_LIMIT
         [] type = "screen"   -> yesterdayLog.screen_time < BACKEND_SCREEN_LIMIT

\* One iteration of the loop of checkStreakDayTransition.
checkedStreak(rows, logs, type, t) ==
    LET streak == rows[type] IN
    IF /\ streak.last_activity_date # t - 1
       /\ streak.last_activity_date # t
       /\ streak.current_count > 0
       /\ ~hadActivity(logs, type, t - 1)
       /\ streak.broken_at = NoDate
    THEN breakStreak(rows, type, t)
    ELSE rows

\* The iterations touch different rows, so their order does not matter.
checkStreakDayTransition(rows, logs, t) ==
    checkedStreak(checkedStreak(checkedStreak(checkedStreak(
        rows, logs, "learning", t), logs, "workout", t), logs, "sleep", t),
        logs, "screen", t)

\* migrateToBackend: the streak part of the migration payload
migrationStreaks(saved) ==
    [type \in {"learning", "workout", "sleep"} |->
        LET h == IF type = "workout" THEN "gym" ELSE type IN
        [current |-> saved.streaks[h],
         lastDate |-> saved.lastActiveDate,
         brokenAt |-> saved.streakHistory[h].lastBroken,
         recoveryDays |-> saved.streakHistory[h].recoveryDays]]

RECURSIVE migrateHistory(_, _, _)
migrateHistory(logs, history, i) ==
    IF i > Len(history) THEN logs
    ELSE migrateHistory(
            saveDayLog(logs, history[i].date,
                [wakeupTime |-> history[i].wakeUp,
                 learningDone |-> history[i].learningDone,
                 workoutDone |-> history[i].workout,
                 screenTime |-> history[i].screenTime]),
            history, i + 1)

migratedStreak(rows, payload, type, t) ==
    updateStreak(rows, type, t, payload[type].current, payload[type].lastDate,
                 payload[type].brokenAt, payload[type].recoveryDays)

\* migrateFromLocalStorage: the streak rows after the payload was applied
migrateFromLocalStorage(rows, saved, t) ==
    LET payload == migrationStreaks(saved) IN
    migratedStreak(migratedStreak(migratedStreak(rows, payload, "learning", t),
                                  payload, "workout", t), payload, "sleep", t)

BackendStartDays == (FirstDay - MaxGap) .. FirstDay

BackendInit ==
    /\ appIdle
    /\ pureIdle
    /\ \E startDay \in BackendStartDays : bStreaks = initializeDefaults(startDay)
    /\ bLogs = <<>>
    /\ bMigrated = FALSE

\* initBackend of a browser that holds dashboardData in localStorage:
\* POST /api/migrate, once.
BackendMigrate ==
    /\ ~bMigrated
    /\ \E saved \in StoredProfiles :
          /\ saved.present
          /\ bLogs' = migrateHistory(bLogs, saved.dailyLogs, 1)
          /\ bStreaks' = migrateFromLocalStorage(bStreaks, saved, today)
    /\ bMigrated' = TRUE
    /\ UNCHANGED today

\* Request bodies of POST /api/today: nothing entered, learning only, everything.
BackendPayloads ==
    { [wakeupTime |-> WakeNull, learningDone |-> FALSE, workoutDone |-> FALSE,
       screenTime |-> 0],
      [wakeupTime |-> WakeNull, learningDone |-> TRUE, workoutDone |-> FALSE,
       screenTime |-> 2 * DEFAULT_SCREEN_GOAL + 1],
      [wakeupTime |-> DEFAULT_WAKEUP_TARGET, learningDone |-> TRUE,
       workoutDone |-> TRUE, screenTime |-> 0] }

\* The streak types the streak endpoints are called with.
EndpointTypes == {"learning", "screen"}

\* POST /api/today
PostToday ==
    /\ \E data \in BackendPayloads : bLogs' = saveDayLog(bLogs, today, data)
    /\ UNCHANGED <<today, bStreaks, bMigrated>>

\* POST /api/streaks/:type/increment
PostStreakIncrement ==
    /\ \E type \in EndpointTypes :
          /\ bStreaks[type].current_count < MaxStreak
          /\ bStreaks' = incrementStreak(bStreaks, type, today)
    /\ UNCHANGED <<today, bLogs, bMigrated>>

\* POST /api/streaks/:type/break
PostStreakBreak ==
    /\ \E type \in EndpointTypes : bStreaks' = breakStreak(bStreaks, type, today)
    /\ UNCHANGED <<today, bLogs, bMigrated>>

\* GET /api/today: the rows are read for the response, then the day-transition
\* check runs.
GetToday ==
    /\ bStreaks' = checkStreakDayTransition(bStreaks, bLogs, today)
    /\ UNCHANGED <<today, bLogs, bMigrated>>

\* Midnight on the server.
BackendTick ==
    /\ today < LastDay
    /\ today' = today + 1
    /\ UNCHANGED backendVars

BackendNext ==
    /\ \/ BackendMigrate
       \/ PostToday
       \/ PostStreakIncrement
       \/ PostStreakBreak
       \/ GetToday
       \/ BackendTick
    /\ UNCHANGED <<dailyLogs, streaks, streakHistory, lifeScore, lastActiveDate,
                   settings, stored, useBackend, pending, dom, clockHour, rejects>>
    /\ UNCHANGED pureVars

SpecBackend == BackendInit /\ [][BackendNext]_vars

----------------------------------------------------------------------------
(* SpecScore: the life score as calculateLifeScore of script.js,
   LifeScoreAuthority.recalculate of settingsAuthority.js and
   calculateAndSaveLifeScore of the backend compute it, on bounded inputs.
   Scores are kept in tenths of a point. *)

ScoreDay == LastDay + ScoreWindowDays

UNRELIABILITY_PENALTY == 2

SettingsDayState ==
    [ COMPLETED |-> "COMPLETED", PARTIAL |-> "PARTIAL", MISSED |-> "MISSED",
      SKIPPED |-> "SKIPPED" ]

countOf(seq, v) == Cardinality({i \in 1..Len(seq) : seq[i] = v})

\* logs: the lockedState of the locked records, oldest first.
calculateConsistencyBonus(logs) ==
    IF Len(logs) < 7 THEN 0
    ELSE LET last7 == SubSeq(logs, Len(logs) - 6, Len(logs))
             completed == countOf(last7, SettingsDayState.COMPLETED)
         IN IF completed = 7 THEN 10 ELSE IF completed >= 5 THEN 5 ELSE 0

calculateStreakBonus(strk) ==
    (IF strk["learning"] >= 30 THEN 5 ELSE IF strk["learning"] >= 14 THEN 3
     ELSE IF strk["learning"] >= 7 THEN 1 ELSE 0)
    + (IF strk["gym"] >= 20 THEN 3 ELSE IF strk["gym"] >= 10 THEN 2
       ELSE IF strk["gym"] >= 5 THEN 1 ELSE 0)
    + (IF strk["sleep"] >= 14 THEN 3 ELSE IF strk["sleep"] >= 7 THEN 1 ELSE 0)

\* LifeScoreAuthority.recalculate; logs are the lockedStates of the records
\* with locked = true. baseScore is kept as a fraction over 10 * total.
LifeScoreAuthority_recalculate(logs, strk) ==
    IF Len(logs) = 0 THEN 50
    ELSE LET total == Len(logs)
             completed == countOf(logs, SettingsDayState.COMPLETED)
             partial == countOf(logs, SettingsDayState.PARTIAL)
             missed == countOf(logs, SettingsDayState.MISSED)
             skipped == countOf(logs, SettingsDayState.SKIPPED)
             bonus == calculateConsistencyBonus(logs) + calculateStreakBonus(strk)
             numerator == (10 * completed + 5 * partial + 3 * skipped) * 100
                            - missed * UNRELIABILITY_PENALTY * 30 * 10
                            + bonus * 10 * total
             rounded == (2 * numerator + 10 * total) \div (2 * 10 * total)
         IN Max(0, Min(100, rounded))

\* calculateAndSaveLifeScore of the backend for the row of the day; the
\* result's score in tenths of a point.
calculateAndSaveLifeScore(hasRow, dayLog, rows) ==
    IF ~hasRow THEN 0
    ELSE LET learningComponent ==
                 IF dayLog.learning_done THEN Min(dayLog.learning_hours * 10, 30) ELSE 0
             workoutComponent == IF dayLog.workout_done THEN 20 ELSE 0
             sleepComponent ==
                 IF dayLog.wakeup_time = WakeNull THEN 0
                 ELSE IF dayLog.wakeup_time <= DEFAULT_WAKEUP_TARGET THEN 20
                 ELSE IF dayLog.wakeup_time <= DEFAULT_WAKEUP_TARGET + 30 THEN 15
                 ELSE IF dayLog.wakeup_time <= DEFAULT_WAKEUP_TARGET + 60 THEN 10
                 ELSE 5
             screenComponent ==
                 IF dayLog.screen_time < 2 THEN 15
                 ELSE IF dayLog.screen_time < 3 THEN 12
                 ELSE IF dayLog.screen_time < 4 THEN 8
                 ELSE IF dayLog.screen_time < 5 THEN 4 ELSE 0
             screenPenalty == IF dayLog.screen_time < 5 THEN 0 ELSE 5
             mitComponent == dayLog.mits_done * 5
             streakBonusTenths ==
                 Min(SumOver(DOMAIN rows,
                             [type \in DOMAIN rows |->
                                IF rows[type].current_count >= 7 THEN 25
                                ELSE IF rows[type].current_count >= 3 THEN 10 ELSE 0]),
                     100)
             penalty == screenPenalty
                          + 3 * Cardinality({type \in DOMAIN rows :
                                               /\ rows[type].broken_at # NoDate
                                               /\ rows[type].recovery_days > 0})
             rawScoreTenths ==
                 10 * (learningComponent + workoutComponent + sleepComponent
                         + screenComponent + mitComponent - penalty)
                   + streakBonusTenths
         IN Max(0, Min(100 * 10, rawScoreTenths))

\* A record of the trailing window: everything done, or nothing done after a
\* late night with heavy screen time.
scoreLog(date, quality, fin, cfg) ==
    LET base == [emptyLog(date, cfg) EXCEPT
                    !.finalized = fin,
                    !.finalizedAt = IF fin THEN date ELSE NoDate]
    IN IF quality = "perfect"
       THEN [base EXCEPT !.learningDone = TRUE, !.learningHours = MaxHours,
                         !.workout = TRUE, !.mits = NumMits, !.mitsDone = NumMits,
                         !.sleptOnTime = "true",
                         !.finalState = IF fin THEN DAY_STATES.COMPLETED ELSE "null"]
       ELSE [base EXCEPT !.wakeUp = WakeNull, !.sleptOnTime = "false",
                         !.screenTime = 2 * DEFAULT_SCREEN_GOAL + 1,
                         !.finalState = IF fin THEN DAY_STATES.MISSED ELSE "null"]

\* Streak counts and recovery lengths of the inputs: none, running at the
\* bonus thresholds, or in recovery after a break.
ScoreStreaks ==
    { [current |-> c, recoveryDays |-> 0] : c \in {0, MaxStreak, ScoreWindowDays} }
    \cup { [current |-> 0, recoveryDays |-> r] : r \in {MaxGap, STRICT_RECOVERY_DAYS} }

\* dashboardData with a record for each day of the window; the n oldest are
\* finalized.
scoreData(n, quality, sd, goal) ==
    LET cfg == [defaultSettings EXCEPT !.screenTimeGoal = goal] IN
    [SCHEMA EXCEPT
        !.dailyLogs = [i \in 1..ScoreWindowDays |->
                         scoreLog(ScoreDay - ScoreWindowDays + i, quality, i <= n, cfg)],
        !.streaks = [h \in StreakHabitSet |-> sd.current],
        !.streakHistory = [h \in StreakHabitSet |->
            [best |-> sd.current,
             lastBroken |-> IF sd.recoveryDays > 0 THEN EarlierDay ELSE NoDate,
             recoveryDays |-> sd.recoveryDays, lastUpdated |-> ScoreDay - 1]],
        !.settings = cfg,
        !.lastActiveDate = ScoreDay]

ScoreData ==
    { scoreData(n, quality, sd, goal) :
        n \in {0, 1, ScoreWindowDays}, quality \in {"perfect", "idle"},
        sd \in ScoreStreaks, goal \in {DEFAULT_SCREEN_GOAL - 1, DEFAULT_SCREEN_GOAL} }

\* Locked histories: none, one day of any state, or a week with some missed days.
LockedHistories ==
    {<<>>}
    \cup { <<v>> : v \in {SettingsDayState.COMPLETED, SettingsDayState.PARTIAL,
                          SettingsDayState.MISSED, SettingsDayState.SKIPPED} }
    \cup { [i \in 1..ScoreWindowDays |->
              IF i <= k THEN SettingsDayState.MISSED ELSE SettingsDayState.COMPLETED] :
            k \in 0..(MaxGap + 1) }

\* Rows of daily_logs, with the columns the score reads.
ScoreRows ==
    { [wakeup_time |-> wk, learning_done |-> ld,
       learning_hours |-> IF ld THEN hrs ELSE 0, workout_done |-> w,
       screen_time |-> st, mits_done |-> m] :
        wk \in {WakeNull, DEFAULT_WAKEUP_TARGET, BACKEND_WAKE_LIMIT + 1},
        ld \in BOOLEAN, hrs \in {1, MaxHours + 1}, w \in BOOLEAN,
        st \in {0, DEFAULT_SCREEN_GOAL, 2 * DEFAULT_SCREEN_GOAL},
        m \in {0, NumMits} }

\* Rows of the streaks table: the learning streak as given, the others at 0.
scoreStreakRows(sd) ==
    [type \in BackendStreakTypes |->
        IF type = "learning"
        THEN [current_count |-> sd.current, best_count |-> sd.current,
              last_activity_date |-> ScoreDay - 1,
              broken_at |-> IF sd.recoveryDays > 0 THEN EarlierDay ELSE NoDate,
              recovery_days |-> sd.recoveryDays]
        ELSE initializeDefaults(ScoreDay - 1)[type]]

ScoreNone == [computed |-> FALSE, scoreTenths |-> 0]

\* Stands for a date without a row: getDayLog resolves to null.
emptyScoreRow ==
    [wakeup_time |-> WakeNull, learning_done |-> FALSE, learning_hours |-> 0,
     workout_done |-> FALSE, screen_time |-> 0, mits_done |-> 0]

scoreInput(e, d, hour, logs, hasRow, row, rows) ==
    [engine |-> e, data |-> d, hour |-> hour, locked |-> logs,
     hasRow |-> hasRow, row |-> row, rows |-> rows]

ScoreInit ==
    /\ appIdle
    /\ backendIdle
    /\ pureOut = ScoreNone
    /\ \/ \E d \in ScoreData, hour \in {NoonHour, EveningHour} :
            pureIn = scoreInput("calculateLifeScore", d, hour, <<>>, FALSE,
                                emptyScoreRow, initializeDefaults(ScoreDay - 1))
       \/ \E logs \in LockedHistories, sd \in ScoreStreaks :
            pureIn = scoreInput("recalculate",
                                scoreData(0, "idle", sd, DEFAULT_SCREEN_GOAL), NoonHour,
                                logs, FALSE, emptyScoreRow,
                                initializeDefaults(ScoreDay - 1))
       \/ \E row \in ScoreRows \cup {emptyScoreRow}, sd \in ScoreStreaks :
            pureIn = scoreInput("calculateAndSaveLifeScore", SCHEMA, NoonHour, <<>>,
                                row # emptyScoreRow, row, scoreStreakRows(sd))

\* updateYearStats asks calculateLifeScore for the score.
ComputeLifeScore ==
    /\ pureIn.engine = "calculateLifeScore"
    /\ ~pureOut.computed
    /\ pureOut' = [computed |-> TRUE,
                   scoreTenths |-> 10 * calculateLifeScore(pureIn.data, ScoreDay, pureIn.hour)]
    /\ UNCHANGED pureIn

\* LifeScoreAuthority.recalculate(dashboardData)
RecalculateLifeScore ==
    /\ pureIn.engine = "recalculate"
    /\ ~pureOut.computed
    /\ pureOut' = [computed |-> TRUE,
                   scoreTenths |-> 10 * LifeScoreAuthority_recalculate(
                                           pureIn.locked, pureIn.data.streaks)]
    /\ UNCHANGED pureIn

\* GET /api/today and POST /api/today answer with db.calculateAndSaveLifeScore().
CalculateAndSaveLifeScore ==
    /\ pureIn.engine = "calculateAndSaveLifeScore"
    /\ ~pureOut.computed
    /\ pureOut' = [computed |-> TRUE,
                   scoreTenths |-> calculateAndSaveLifeScore(
                                      pureIn.hasRow, pureIn.row, pureIn.rows)]
    /\ UNCHANGED pureIn

ScoreNext ==
    /\ \/ ComputeLifeScore
       \/ RecalculateLifeScore
       \/ CalculateAndSaveLifeScore
    /\ UNCHANGED appVars
    /\ UNCHANGED backendVars

SpecScore == ScoreInit /\ [][ScoreNext]_vars

----------------------------------------------------------------------------
(* SpecPredicate: the habit predicates of script.js and habitSystem.js asked
   about one habit id, known or not *)

\* A habit id that neither switch statement has a case for.
UnknownHabit == "meditation"

PredicateHabits == HabitIdSet \cup {UnknownHabit}

PredicateInit ==
    /\ appIdle
    /\ backendIdle
    /\ pureIn \in [log : EvalLogs, cfg : EvalConfigs, habitId : PredicateHabits]
    /\ pureOut = PureNone

answered(op, satisfied) ==
    [op |-> op, state |-> IF satisfied THEN "satisfied" ELSE "unsatisfied",
     missing |-> <<>>]

\* isHabitValidated(habitId, log)
AskIsHabitValidated ==
    /\ pureOut = PureNone
    /\ pureOut' = answered("isHabitValidated",
                           isHabitValidated(pureIn.habitId, pureIn.log, pureIn.cfg))
    /\ UNCHANGED pureIn

\* HabitSystem.isHabitComplete(habitId, dayLog)
AskIsHabitComplete ==
    /\ pureOut = PureNone
    /\ pureOut' = answered("isHabitComplete",
                           DayStateMachine_isHabitComplete(pureIn.habitId, pureIn.log,
                                                           pureIn.cfg))
    /\ UNCHANGED pureIn

PredicateNext ==
    /\ \/ AskIsHabitValidated
       \/ AskIsHabitComplete
    /\ UNCHANGED appVars
    /\ UNCHANGED backendVars

SpecPredicate == PredicateInit /\ [][PredicateNext]_vars

----------------------------------------------------------------------------
(* SpecStore: the day-record store under import, page loads from
   localStorage and from the backend, rollover and finalizes *)

\* A row of daily_logs mapped to the local format by loadFromBackend and
\* loadHistoryFromBackend: the mapped object has no finalized, finalizedAt or
\* finalState property.
mappedLog(row, cfg, isArchived) ==
    [emptyLog(row.date, cfg) EXCEPT
        !.learningDone = row.done, !.learningHours = IF row.done THEN MaxHours ELSE 0,
        !.workout = row.done, !.archived = isArchived]

\* dashboardData.dailyLogs[existingIdx] = todayLog, or push.
upsertLog(logs, log) ==
    IF hasLog(logs, log.date)
    THEN [logs EXCEPT ![findLogIndex(logs, log.date)] = log]
    ELSE Append(logs, log)

\* loadHistoryFromBackend: the history replaces the list; today's local
\* record is pushed when the history does not have its date.
loadHistoryFromBackend(d, history, t) ==
    IF history = <<>> THEN d
    ELSE LET mappedLogs == [i \in 1..Len(history) |-> mappedLog(history[i], d.settings, TRUE)]
         IN IF hasLog(d.dailyLogs, t) /\ ~hasLog(mappedLogs, t)
            THEN [d EXCEPT !.dailyLogs = Append(mappedLogs, findLog(d.dailyLogs, t))]
            ELSE [d EXCEPT !.dailyLogs = mappedLogs]

\* loadFromBackend: today's row, the streak rows, the life score, the tasks
\* (getTodayLog), then the history.
loadFromBackend(d, data, t) ==
    LET d1 == IF data.hasToday
              THEN [d EXCEPT !.dailyLogs =
                      upsertLog(d.dailyLogs, mappedLog(data.today, d.settings, FALSE))]
              ELSE d
        d2 == [d1 EXCEPT
                 !.streaks = [h \in StreakHabitSet |-> data.streaks[h].current_count],
                 !.streakHistory = [h \in StreakHabitSet |->
                     [d1.streakHistory[h] EXCEPT
                         !.best = data.streaks[h].best_count,
                         !.recoveryDays = data.streaks[h].recovery_days]],
                 !.lifeScore = data.lifeScore]
    IN loadHistoryFromBackend(getTodayLog(d2, t), data.history, t)

\* Responses of GET /api/today and GET /api/history: daily_logs has one row
\* per date (date is UNIQUE), newest first.
backendRow(date, done) == [date |-> date, done |-> done]

backendStreakRows(count) ==
    [h \in StreakHabitSet |-> [current_count |-> count, best_count |-> count,
                               recovery_days |-> 0]]

backendHistory(t, done, n) == [i \in 1..n |-> backendRow(t + 1 - i, done)]

BackendResponses(t) ==
    { [hasToday |-> ht, today |-> backendRow(t, done), streaks |-> backendStreakRows(count),
       lifeScore |-> 0, history |-> backendHistory(t, done, n)] :
        ht \in BOOLEAN, done \in BOOLEAN, count \in {0, MaxStreak - 1}, n \in 0..2 }

\* The DOMContentLoaded handler with the backend available: dashboardData
\* starts from SCHEMA, localStorage is not read.
backendPageLoad(saved, cfg, data, t, currentHour) ==
    updateDashboard(
        loadFromBackend([SCHEMA EXCEPT
                            !.settings = [cfg EXCEPT !.wakeupTarget = DEFAULT_WAKEUP_TARGET,
                                                     !.screenTimeGoal = DEFAULT_SCREEN_GOAL],
                            !.stored = saved],
                        data, t),
        t, currentHour)

\* The page is loaded again with the backend available.
ReloadFromBackend ==
    /\ useBackend
    /\ \E data \in BackendResponses(today) :
         LET d == backendPageLoad(stored, settings, data, today, clockHour) IN
         /\ Commit(d)
         /\ dom' = lockedDom(freshDom, d, today)
    /\ pending' = {}
    /\ UNCHANGED <<today, useBackend, clockHour, rejects>>

\* The forEach of importData: a record is pushed when its date is not in the
\* list, the list growing as the loop goes.
RECURSIVE pushImported(_, _)
pushImported(logs, imported) ==
    IF imported = <<>> THEN logs
    ELSE pushImported(IF hasLog(logs, Head(imported).date) THEN logs
                      ELSE Append(logs, Head(imported)),
                      Tail(imported))

\* Variant that pushes every record of the file.
importData_pushesAll(d, parsed, t, currentHour) ==
    updateDashboard(
        saveToStorage([d EXCEPT !.dailyLogs = trimOldLogs(d.dailyLogs \o parsed)], t),
        t, currentHour)

\* importData: merge, sort by date, saveToStorage, updateDashboard.
importData(d, parsed, t, currentHour) ==
    updateDashboard(
        saveToStorage([d EXCEPT !.dailyLogs = trimOldLogs(pushImported(d.dailyLogs, parsed))], t),
        t, currentHour)

\* Backup files: up to two records, of today, yesterday or the same date twice.
ImportFiles(t) ==
    { <<completedLog(a)>> : a \in {t - 1, t} }
      \cup { <<completedLog(a), emptyLog(b, defaultSettings)>> : a \in {t - 1, t}, b \in {t - 1, t} }

ImportData ==
    /\ \E parsed \in ImportFiles(today) :
         LET d == importData(dashboardData, parsed, today, clockHour) IN
         /\ Commit(d)
         /\ dom' = [lockedDom(dom, d, today) EXCEPT !.notification = "imported"]
    /\ UNCHANGED <<today, useBackend, pending, clockHour, rejects>>

StoreNext ==
    /\ \/ ImportData
       \/ ReloadFromBackend
       \/ Reload
       \/ SaveNow
       \/ SaveNowResolved
       \/ SaveNowRejected
       \/ DayChangeWatcher
       \/ Tick
    /\ UNCHANGED pureVars
    /\ UNCHANGED backendVars

SpecStore == Init /\ [][StoreNext]_vars

----------------------------------------------------------------------------
(* SpecRecovery: a fresh installation used over the days of a recovery
   period, the learning habit switched off, workouts entered and days
   finalized or left open *)

RecoveryLastDay == FirstDay + STRICT_RECOVERY_DAYS

RecoverySettings ==
    { [defaultSettings EXCEPT
          !.sensitivity = s,
          !.enabled = [h \in HabitIdSet |-> IF h = "learning" THEN "false" ELSE "true"]] :
        s \in {"strict"} }

InitRecovery ==
    /\ \E cfg \in RecoverySettings :
          LET d == pageLoad(SCHEMA.stored, cfg, FirstDay, NoonHour)
          IN /\ dailyLogs = d.dailyLogs
             /\ streaks = d.streaks
             /\ streakHistory = d.streakHistory
             /\ lifeScore = d.lifeScore
             /\ lastActiveDate = d.lastActiveDate
             /\ settings = d.settings
             /\ stored = d.stored
             /\ dom = lockedDom(freshDom, d, FirstDay)
    /\ today = FirstDay
    /\ useBackend = FALSE
    /\ pending = {}
    /\ clockHour = NoonHour
    /\ rejects = 0
    /\ pureIdle
    /\ backendIdle

\* Midnight passes, up to the last day of a recovery period.
MidnightPasses ==
    /\ today < RecoveryLastDay
    /\ today' = today + 1
    /\ clockHour' = NoonHour
    /\ dom' = hideToast(dom)
    /\ UNCHANGED <<dailyLogs, streaks, streakHistory, lifeScore, lastActiveDate,
                   settings, stored, useBackend, pending, rejects>>

RecoveryNext ==
    /\ \/ UpdateWorkoutStatus
       \/ SaveNow
       \/ DayChangeWatcher
       \/ MidnightPasses
       \/ Reload
    /\ UNCHANGED pureVars
    /\ UNCHANGED backendVars

SpecRecovery == InitRecovery /\ [][RecoveryNext]_vars

----------------------------------------------------------------------------
(* Claims about the classifiers *)

\* The enabled habits that fail the predicate on a record.
failingHabits(log, cfg) ==
    {h \in HabitIdSet : cfg.enabled[h] # "false" /\ ~isHabitValidated(h, log, cfg)}

\* C1: a record that is not finalized is classified NOT_COUNTED by
\* calculateDayState and by DayStateMachine.calculateState, whatever its
\* fields and whatever the configuration.
C1_UnfinalizedIsNotCounted ==
    (/\ pureOut.op \in {"calculateDayState", "DayStateMachine.calculateState"}
     /\ ~pureIn.log.finalized)
    => pureOut.state = DAY_STATES.NOT_COUNTED

\* C1 witness: an un-finalized record with every field filled was classified.
C1_Witness ==
    /\ pureOut.op = "calculateDayState"
    /\ ~pureIn.log.finalized
    /\ pureIn.log.learningDone /\ pureIn.log.learningHours = MaxHours
    /\ pureIn.log.workout /\ pureIn.log.wakeUp = DEFAULT_WAKEUP_TARGET
    /\ pureIn.log.screenTime > 0 /\ pureIn.log.mitsDone = NumMits
    /\ pureOut.state = DAY_STATES.NOT_COUNTED

\* C2: a finalized record is COMPLETED exactly when no enabled habit fails
\* (in particular when no habit is enabled) and MISSED otherwise; never
\* NOT_COUNTED or another state.
C2_FinalizedIsCompletedIffAllMet ==
    (/\ pureOut.op \in {"calculateDayState", "finalize"}
     /\ pureIn.log.finalized)
    => /\ pureOut.state \in {DAY_STATES.COMPLETED, DAY_STATES.MISSED}
       /\ pureOut.state = DAY_STATES.COMPLETED
            <=> failingHabits(pureIn.log, pureIn.cfg) = {}

\* C2 witness: a finalized record whose first enabled habit is met and a later
\* one is not was classified MISSED.
C2_Witness ==
    /\ pureOut.op = "calculateDayState"
    /\ pureIn.log.finalized
    /\ \A h \in HabitIdSet : pureIn.cfg.enabled[h] = "true"
    /\ failingHabits(pureIn.log, pureIn.cfg) = {"gym"}
    /\ pureOut.state = DAY_STATES.MISSED

\* C3: the preview reports the state that calculateDayState gives the same
\* record once finalized, and its missing list is exactly the display names
\* of the failing enabled habits (empty iff COMPLETED).
C3_PreviewMatchesFinalize ==
    pureOut.op = "previewFinalState"
    => /\ pureOut.state =
            calculateDayState([pureIn.log EXCEPT !.finalized = TRUE], pureIn.cfg)
       /\ {pureOut.missing[i] : i \in 1..Len(pureOut.missing)} =
            {getHabitDisplayName(h) : h \in failingHabits(pureIn.log, pureIn.cfg)}
       /\ Len(pureOut.missing) = Cardinality(failingHabits(pureIn.log, pureIn.cfg))
       /\ (pureOut.missing = <<>>) <=> (pureOut.state = DAY_STATES.COMPLETED)

\* C3 witness: a preview of an un-finalized record that lists two missing habits.
C3_Witness ==
    /\ pureOut.op = "previewFinalState"
    /\ ~pureIn.log.finalized
    /\ pureOut.state = DAY_STATES.MISSED
    /\ pureOut.missing = <<"Workout", "Screen Time">>

----------------------------------------------------------------------------
(* Claims about rollover and finalize *)

\* the streak columns of the backend that the claims speak of
backendStreakState ==
    [type \in BackendStreakTypes |->
        <<bStreaks[type].current_count, bStreaks[type].best_count,
          bStreaks[type].recovery_days, bStreaks[type].broken_at>>]

\* the streak fields of the browser application that the claims speak of
streakState ==
    [h \in StreakHabitSet |->
        <<streaks[h], streakHistory[h].best, streakHistory[h].recoveryDays,
          streakHistory[h].lastBroken>>]

\* C4: days that were never finalized never touch streaks: the backend's
\* day-transition check, run by GET /api/today after any number of days without
\* activity, leaves every streak's current count, best count, recovery days and
\* last-broken date unchanged.
C4_DayTransitionCheckKeepsStreaks ==
    [][GetToday => backendStreakState' = backendStreakState]_vars

\* C4, browser side: the rollover sweep of the day-change watcher and of a page
\* load (handleDayTransition, finalizeDayState, handleInactivityGap) leaves every
\* habit's current count, best count, recovery days and last-broken date unchanged.
C4_RolloverSweepKeepsStreaks ==
    [][(DayChangeWatcher \/ Reload) => streakState' = streakState]_vars


\* the streak counts and the score the dashboard stores
streaksAndScore ==
    << [h \in StreakHabitSet |->
          <<streaks[h], streakHistory[h].best, streakHistory[h].recoveryDays>>],
       lifeScore >>

\* today's record is open before the step and finalized after it
finalizesToday ==
    /\ hasLog(dailyLogs, today)
    /\ ~findLog(dailyLogs, today).finalized
    /\ hasLog(dailyLogs', today)
    /\ findLog(dailyLogs', today).finalized

\* C5: a successful finalize is the only path by which streaks or score change:
\* every step that changes a streak's current count, best count or recovery days,
\* or the stored life score, is a step that finalizes today's record.
C5_OnlyFinalizeChangesStreaksAndScore ==
    [][(streaksAndScore' # streaksAndScore) => finalizesToday]_vars

\* C5 for the score alone: timers and dashboard refresh leave the stored life
\* score as it was.
C5_OnlyFinalizeChangesScore ==
    [][(lifeScore' # lifeScore) => finalizesToday]_vars

\* the streak fields of one evaluated habit that the claims speak of
evaluatedFields(sd) == <<sd.current, sd.best, sd.recoveryDays, sd.lastBroken>>

\* C6: streak evaluation is idempotent per habit and date: evaluating a habit's
\* streak a second time for the same date leaves current count, best count,
\* recovery days and last-broken date as the first evaluation left them.
C6_EvaluationIsIdempotent ==
    pureOut.evaluations = MaxEvaluations
    => evaluatedFields(pureIn.streak) = evaluatedFields(pureOut.once)

\* C6 for script.js alone: validateAndUpdateAllStreaks stamps lastUpdated and
\* returns unchanged the second time.
C6_ValidateAndUpdateIsIdempotent ==
    (pureOut.evaluations = MaxEvaluations
        /\ pureIn.engine = "validateAndUpdateAllStreaks")
    => pureIn.streak = pureOut.once

\* A second validateAndUpdateAllStreaks came after a first that incremented.
C6_ValidateAndUpdateWitness ==
    /\ pureOut.evaluations = MaxEvaluations
    /\ pureIn.engine = "validateAndUpdateAllStreaks"
    /\ pureOut.once.current = pureOut.before.current + 1

\* today's record exists and is finalized
todayFinalized ==
    IF hasLog(dailyLogs, today) THEN findLog(dailyLogs, today).finalized ELSE FALSE

\* C7: a day already finalized cannot be finalized again: saveNow on a finalized
\* record ends with the already-finalized warning and changes nothing: the
\* records, the streaks, the life score, lastActiveDate, the stored copy and the
\* requests in flight stay as they were.
C7_RefinalizeIsRefusedWithoutChange ==
    [][(SaveNow /\ todayFinalized)
        => /\ dom'.notification = "already-finalized"
           /\ UNCHANGED <<dailyLogs, streaks, streakHistory, lifeScore,
                          lastActiveDate, settings, stored, pending>>]_vars

\* C7 witness: the warning was raised for a finalized record whose finalize
\* changed a streak.
C7_Witness ==
    /\ dom.notification = "already-finalized"
    /\ todayFinalized
    /\ \E h \in StreakHabitSet : streakHistory[h].lastUpdated = today

\* today's record before the step, and after it
recordBefore == findLog(dailyLogs, today)

recordAfter == findLog(dailyLogs', today)

\* habit h is enabled, not in recovery, and not yet evaluated for today
normalAndDue(h) ==
    /\ ~habitDisabled(settings, h)
    /\ streakHistory[h].recoveryDays = 0
    /\ streakHistory[h].lastUpdated # today

\* C8: habit streaks are independent on finalize: when the finalized day is
\* MISSED because workout is not done while learning and sleep are satisfied, the
\* workout streak resets to 0 with recovery days set, and the learning and sleep
\* streaks (enabled, not in recovery, not yet evaluated) each increase by 1.
C8_MissedWorkoutLeavesOtherStreaksCounting ==
    [][(/\ finalizesToday
        /\ failingHabits(recordBefore, settings) = {"gym"}
        /\ normalAndDue("learning") /\ normalAndDue("sleep") /\ normalAndDue("gym"))
        => /\ recordAfter.finalState = DAY_STATES.MISSED
           /\ streaks'["gym"] = 0
           /\ streakHistory'["gym"].recoveryDays > 0
           /\ streaks'["learning"] = streaks["learning"] + 1
           /\ streaks'["sleep"] = streaks["sleep"] + 1]_vars

\* C8, what the code does: under the default sensitivity a MISSED day leaves every
\* streak count and every recovery as it was.
C8_MissedDayUnderNormalSensitivityChangesNothing ==
    [][(/\ finalizesToday
        /\ failingHabits(recordBefore, settings) # {}
        /\ settings.sensitivity = "normal")
        => /\ recordAfter.finalState = DAY_STATES.MISSED
           /\ streakState' = streakState]_vars

\* C9: when a record that satisfies every enabled habit is finalized, its state
\* is COMPLETED and each of the learning, workout and sleep streaks that is
\* enabled, not in recovery and not yet evaluated for the date increases by
\* exactly 1, with best = max(best, current) afterwards.
C9_CompletedDayIncrementsEachStreak ==
    [][(finalizesToday /\ failingHabits(recordBefore, settings) = {})
        => /\ recordAfter.finalState = DAY_STATES.COMPLETED
           /\ \A h \in StreakHabitSet :
                 normalAndDue(h)
                 => /\ streaks'[h] = streaks[h] + 1
                    /\ streakHistory'[h].best = Max(streakHistory[h].best, streaks'[h])
                    /\ streakHistory'[h].recoveryDays = 0]_vars

\* C9 witness: a COMPLETED finalize has taken all three streaks past their best.
C9_Witness ==
    /\ todayFinalized
    /\ findLog(dailyLogs, today).finalState = DAY_STATES.COMPLETED
    /\ \A h \in StreakHabitSet :
          /\ streaks[h] = MaxStreak
          /\ streakHistory[h].best = MaxStreak
          /\ streakHistory[h].lastUpdated = today

\* habit h is enabled, in recovery, not yet evaluated for today, and satisfied
\* by today's record
recoveringAndSatisfied(h) ==
    /\ ~habitDisabled(settings, h)
    /\ streakHistory[h].recoveryDays > 0
    /\ streakHistory[h].lastUpdated # today
    /\ isHabitValidated(h, recordBefore, settings)

\* the countdown step of habit h: recovery r becomes r - 1; the count stays as
\* it was while r - 1 > 0 and becomes 1 when r - 1 = 0
countdownStep(h) ==
    /\ streakHistory'[h].recoveryDays = streakHistory[h].recoveryDays - 1
    /\ streaks'[h] = IF streakHistory[h].recoveryDays - 1 = 0 THEN 1 ELSE streaks[h]

\* C10: recovery countdown: a habit in recovery with r > 0 days left that is
\* satisfied on the finalized day has r - 1 days left afterwards; its count stays
\* 0 when r - 1 > 0 and becomes exactly 1 when r - 1 = 0.
C10_SatisfiedHabitCountsRecoveryDown ==
    [][finalizesToday
        => \A h \in StreakHabitSet : recoveringAndSatisfied(h) => countdownStep(h)]_vars

\* C10 on COMPLETED days: the countdown takes place when every enabled habit is
\* satisfied.
C10_CountdownOnCompletedDay ==
    [][(finalizesToday /\ failingHabits(recordBefore, settings) = {})
        => \A h \in StreakHabitSet : recoveringAndSatisfied(h) => countdownStep(h)]_vars

\* C11: disabled habits are frozen: finalizing a day, COMPLETED or MISSED, leaves
\* the current count, best count, recovery days, last-broken date and
\* last-evaluated date of every habit disabled in the settings unchanged,
\* whatever the record holds.
C11_DisabledHabitsAreFrozen ==
    [][finalizesToday
        => \A h \in StreakHabitSet :
              habitDisabled(settings, h)
              => /\ streaks'[h] = streaks[h]
                 /\ streakHistory'[h] = streakHistory[h]]_vars

\* C11 witness: a COMPLETED finalize has evaluated the enabled habits and left
\* the disabled one, done on that day, without a stamp.
C11_Witness ==
    /\ todayFinalized
    /\ findLog(dailyLogs, today).finalState = DAY_STATES.COMPLETED
    /\ habitDisabled(settings, "gym")
    /\ findLog(dailyLogs, today).workout
    /\ streakHistory["gym"].lastUpdated # today
    /\ streakHistory["learning"].lastUpdated = today

----------------------------------------------------------------------------
(* Claims about failed finalizes and rollover *)

\* the record of a date is missing from the records, or not finalized
openIn(logs, date) ==
    IF hasLog(logs, date) THEN ~findLog(logs, date).finalized ELSE TRUE

\* the step is the catch block of a saveNow whose save was rejected
finalizeFails == rejects' = rejects + 1

\* C12: a finalize that fails while saving to the backend leaves the day's record
\* with finalized = false in memory and in the copy kept in localStorage, so that
\* a retry for the same date is accepted.
C12_FailedFinalizeLeavesRecordOpen ==
    [][finalizeFails
        => \A date \in pending \ pending' :
              /\ openIn(dailyLogs', date)
              /\ openIn(stored'.dailyLogs, date)]_vars

\* C12 in memory alone: the catch block reverts the flag of the record in
\* dashboardData.
C12_FailedFinalizeRevertsInMemory ==
    [][finalizeFails
        => \A date \in pending \ pending' : openIn(dailyLogs', date)]_vars

\* every record of an earlier date that was never finalized is stored as
\* NOT_COUNTED
elapsedDaysAreNotCounted(logs, t) ==
    \A i \in 1..Len(logs) :
        (logs[i].date < t /\ ~logs[i].finalized)
        => logs[i].finalState = DAY_STATES.NOT_COUNTED

\* C13: rollover coverage: once the application has moved on to a new day
\* (today's record exists), every earlier date whose record was not finalized is
\* stored with final state NOT_COUNTED and finalized = false, whatever the order
\* of the day-change watcher, the auto-save timer and the other handlers.
C13_RolloverCoversEveryElapsedDay ==
    hasLog(dailyLogs, today) => elapsedDaysAreNotCounted(dailyLogs, today)

\* C13 when the watcher comes first: a sweep that still finds the old
\* lastActiveDate closes the day it names.
C13_SweepFromOldLastActiveDate ==
    [][(DayChangeWatcher /\ lastActiveDate # NoDate /\ lastActiveDate < today)
        => elapsedDaysAreNotCounted(
              SelectSeq(dailyLogs', LAMBDA log : log.date = lastActiveDate), today)]_vars

\* The state after one run of the rollover sweep on the current data.
sweptOnce == handleDayTransition(dashboardData, today)

\* C14: running handleDayTransition a second time with no clock advance in
\* between changes nothing: no record is created or altered, no final state
\* is rewritten, lastActiveDate and the streaks stay as the first run left them.
C14_SweepIsIdempotent == handleDayTransition(sweptOnce, today) = sweptOnce

\* A sweep after midnight that closes the last active day and opens the new one.
C14_Witness ==
    /\ lastActiveDate # NoDate
    /\ today - lastActiveDate > 0
    /\ hasLog(dailyLogs, lastActiveDate)
    /\ ~findLog(dailyLogs, lastActiveDate).finalized
    /\ findLog(dailyLogs, lastActiveDate).finalState # DAY_STATES.NOT_COUNTED
    /\ findLog(sweptOnce.dailyLogs, lastActiveDate).finalState = DAY_STATES.NOT_COUNTED
    /\ Len(sweptOnce.dailyLogs) > Len(dailyLogs)

----------------------------------------------------------------------------
(* Claims about finalized records *)

\* The final states that saveNow stores, together with finalized = true.
FinalizedStates == {DAY_STATES.COMPLETED, DAY_STATES.MISSED}

\* The record of the date is still there with the final state v.
keepsFinalState(logs, date, v) ==
    IF hasLog(logs, date) THEN findLog(logs, date).finalState = v ELSE FALSE

\* A record holds COMPLETED or MISSED only if it has finalized = true, or had
\* it until a finalize failed.
C15_FinalStateComesWithFinalized ==
    \A i \in 1..Len(dailyLogs) :
        dailyLogs[i].finalState \in FinalizedStates
            => (dailyLogs[i].finalized \/ rejects > 0)

\* C15: a record that has had finalized = true (its final state is COMPLETED or
\* MISSED) keeps that final state in every step: data entry, sweeps, timers,
\* refreshes and further finalize attempts.
C15_FinalizedStateNeverChanges ==
    [][\A i \in 1..Len(dailyLogs) :
          dailyLogs[i].finalState \in FinalizedStates
              => keepsFinalState(dailyLogs', dailyLogs[i].date, dailyLogs[i].finalState)]_vars

\* The same for a record whose finalize is not waiting for the backend's
\* answer: it stays finalized and keeps its final state.
C15_CommittedFinalStateNeverChanges ==
    [][\A i \in 1..Len(dailyLogs) :
          (dailyLogs[i].finalized /\ dailyLogs[i].date \notin pending)
              => /\ keepsFinalState(dailyLogs', dailyLogs[i].date, dailyLogs[i].finalState)
                 /\ findLog(dailyLogs', dailyLogs[i].date).finalized]_vars

----------------------------------------------------------------------------
(* Claims about the life score *)

\* No finalized (locked) day is among the records the calculation reads.
emptyWindow ==
    IF pureIn.engine = "calculateLifeScore"
    THEN last7FinalizedIndexes(pureIn.data, ScoreDay) = {}
    ELSE IF pureIn.engine = "recalculate" THEN pureIn.locked = <<>>
    ELSE FALSE

\* C16: when no finalized day exists in the trailing window the computed life
\* score is exactly 0, whatever the streaks, the un-finalized records and the
\* configuration.
C16_EmptyWindowScoresZero ==
    (pureOut.computed /\ emptyWindow) => pureOut.scoreTenths = 0

\* The same for calculateLifeScore of script.js alone.
C16_CalculateLifeScoreOnEmptyWindow ==
    (pureOut.computed /\ emptyWindow /\ pureIn.engine = "calculateLifeScore")
        => pureOut.scoreTenths = 0

C16_CalculateLifeScoreWitness ==
    /\ pureOut.computed
    /\ pureIn.engine = "calculateLifeScore"
    /\ emptyWindow
    /\ pureIn.data.streaks["learning"] > 0
    /\ todayLogOf(pureIn.data, ScoreDay).learningDone

\* C17: the computed life score is an integer in [0, 100] for every history,
\* streak state and configuration.
C17_ScoreIsIntegerInRange ==
    pureOut.computed =>
        /\ pureOut.scoreTenths % 10 = 0
        /\ pureOut.scoreTenths \in 0..(100 * 10)

\* The same for the two calculations of the page.
C17_PageScoreIsIntegerInRange ==
    (pureOut.computed /\ pureIn.engine # "calculateAndSaveLifeScore") =>
        /\ pureOut.scoreTenths % 10 = 0
        /\ pureOut.scoreTenths \in 0..(100 * 10)

\* calculateLifeScore clamps a week whose points exceed 100 ...
C17_PointsAboveHundred ==
    /\ pureOut.computed
    /\ pureIn.engine = "calculateLifeScore"
    /\ ~emptyWindow
    /\ lifeScoreNumerator(pureIn.data, ScoreDay, pureIn.hour) > 100 * ScoreDenominator
    /\ pureOut.scoreTenths = 100 * 10

\* ... and a week whose penalties exceed its points.
C17_PenaltiesAbovePoints ==
    /\ pureOut.computed
    /\ pureIn.engine = "calculateLifeScore"
    /\ ~emptyWindow
    /\ lifeScoreNumerator(pureIn.data, ScoreDay, pureIn.hour) < 0
    /\ pureOut.scoreTenths = 0

----------------------------------------------------------------------------
(* Claims about the learning habit *)

\* C18: raising learningHours, everything else equal, never turns the learning
\* habit from satisfied to unsatisfied, for isHabitValidated of script.js and
\* for DayStateMachine.isHabitComplete of habitSystem.js.
C18_MoreLearningHoursKeepLearningSatisfied ==
    \A more \in pureIn.log.learningHours..(MaxHours + 1) :
        LET longer == [pureIn.log EXCEPT !.learningHours = more] IN
        /\ isHabitValidated("learning", pureIn.log, pureIn.cfg)
             => isHabitValidated("learning", longer, pureIn.cfg)
        /\ DayStateMachine_isHabitComplete("learning", pureIn.log, pureIn.cfg)
             => DayStateMachine_isHabitComplete("learning", longer, pureIn.cfg)

\* A finalized record classified with learning satisfied on fewer hours than
\* the daily maximum.
C18_Witness ==
    /\ pureOut.op = "calculateDayState"
    /\ pureIn.log.finalized
    /\ pureIn.log.learningHours < MaxHours
    /\ isHabitValidated("learning", pureIn.log, pureIn.cfg)
    /\ isHabitValidated("learning",
                        [pureIn.log EXCEPT !.learningHours = MaxHours], pureIn.cfg)

----------------------------------------------------------------------------
(* Claims about finalize attempts and penalties *)

\* Nothing of a finalize attempt for the date is left: the record has no final
\* state and no habit's streak carries the date as its last evaluation.
unattempted(logs, history, date) ==
    /\ findLog(logs, date).finalState = "null"
    /\ \A h \in StreakHabitSet : history[h].lastUpdated # date

\* An open record of today that no finalize is in flight for, before any
\* finalize failed, has not been through an attempt.
C19_OpenRecordIsUnattempted ==
    (/\ rejects = 0
     /\ today \notin pending
     /\ hasLog(dailyLogs, today)
     /\ openIn(dailyLogs, today))
        => unattempted(dailyLogs, streakHistory, today)

\* C19: a finalize that fails because the backend rejects it leaves the
\* record's final state and every habit's streak state as they were before
\* the attempt: no final state, no habit evaluated for the date.
C19_FailedFinalizeChangesNothing ==
    [][finalizeFails =>
          \A date \in pending \ pending' :
              hasLog(dailyLogs', date) => unattempted(dailyLogs', streakHistory', date)]_vars

\* Habit h, in recovery, keeps its recovery length and count over the step
\* when the step finalizes a day on which h is not satisfied, and never gets a
\* longer recovery.
penalizedOnce(h) ==
    /\ streakHistory'[h].recoveryDays <= streakHistory[h].recoveryDays
    /\ IF finalizesToday
       THEN isHabitValidated(h, recordBefore, settings)
              \/ (/\ streakHistory'[h].recoveryDays = streakHistory[h].recoveryDays
                  /\ streaks'[h] = streaks[h])
       ELSE TRUE

\* C20: at most one penalty per break: for a habit in recovery, a finalized day
\* on which it is not satisfied leaves its recovery length and current count
\* unchanged, and no operation increases the recovery length of a habit that
\* is already recovering.
C20_OnePenaltyPerBreak ==
    [][\A h \in StreakHabitSet :
          streakHistory[h].recoveryDays > 0 => penalizedOnce(h)]_vars

\* The same under the sensitivities other than strict.
C20_OnePenaltyPerBreakUnlessStrict ==
    [][\A h \in StreakHabitSet :
          (streakHistory[h].recoveryDays > 0 /\ settings.sensitivity # "strict")
              => penalizedOnce(h)]_vars

----------------------------------------------------------------------------
(* Claims about breaks *)

\* Habit h is enabled, in NORMAL state, not yet evaluated for today, and not
\* satisfied by today's record.
normalAndUnsatisfied(h) ==
    /\ normalAndDue(h)
    /\ ~isHabitValidated(h, recordBefore, settings)

\* The break of habit h with a recovery of r days.
brokenWith(h, r) ==
    /\ streaks'[h] = 0
    /\ streakHistory'[h].best = Max(streakHistory[h].best, streaks[h])
    /\ streakHistory'[h].lastBroken = today
    /\ streakHistory'[h].recoveryDays = r

\* C21: a finalized MISSED day under strict sensitivity breaks a habit in
\* NORMAL state with current = c > 0: best = max(best, c), current = 0, the
\* break date is recorded and the recovery lasts min(ceil(c / 3), 5) days.
C21_BreakSetsRecoveryFromCount ==
    [][(finalizesToday /\ settings.sensitivity = "strict")
        => \A h \in StreakHabitSet :
              (normalAndUnsatisfied(h) /\ streaks[h] > 0)
                  => brokenWith(h, authorityRecoveryDays(streaks[h]))]_vars

\* The break of script.js with its fixed recovery length.
C21_BreakSetsFixedRecovery ==
    [][(finalizesToday /\ settings.sensitivity = "strict")
        => \A h \in StreakHabitSet :
              (normalAndUnsatisfied(h) /\ streaks[h] > 0)
                  => brokenWith(h, STRICT_RECOVERY_DAYS)]_vars

\* The break of HabitStreakAuthority: the first evaluation of a record that
\* does not satisfy a running habit.
C21_AuthorityBreakSetsRecoveryFromCount ==
    (/\ pureIn.engine = "updateHabitStreak"
     /\ pureOut.evaluations = 1
     /\ pureOut.before.current > 0
     /\ pureOut.before.recoveryDays = 0
     /\ ~habitDisabled(pureIn.cfg, pureIn.habitId)
     /\ ~DayStateMachine_isHabitComplete(pureIn.habitId, pureIn.log, pureIn.cfg))
        => /\ pureOut.once.current = 0
           /\ pureOut.once.best = Max(pureOut.before.best, pureOut.before.current)
           /\ pureOut.once.lastBroken = pureIn.log.date
           /\ pureOut.once.recoveryDays = authorityRecoveryDays(pureOut.before.current)

\* The count, best count, recovery days and last-broken date of habit h stay.
breakFieldsKept(h) ==
    /\ streaks'[h] = streaks[h]
    /\ streakHistory'[h].best = streakHistory[h].best
    /\ streakHistory'[h].recoveryDays = streakHistory[h].recoveryDays
    /\ streakHistory'[h].lastBroken = streakHistory[h].lastBroken

\* C22: a habit whose current count is 0 never triggers a break: finalizing a
\* MISSED day for an unsatisfied, enabled habit with count 0 that is not in
\* recovery leaves its count, best count, recovery days and last-broken date
\* unchanged, in every sensitivity mode.
C22_ZeroCountIsNeverBroken ==
    [][finalizesToday
        => \A h \in StreakHabitSet :
              (normalAndUnsatisfied(h) /\ streaks[h] = 0) => breakFieldsKept(h)]_vars

\* The same in the sensitivity modes other than strict.
C22_ZeroCountIsNeverBrokenUnlessStrict ==
    [][(finalizesToday /\ settings.sensitivity # "strict")
        => \A h \in StreakHabitSet :
              (normalAndUnsatisfied(h) /\ streaks[h] = 0) => breakFieldsKept(h)]_vars

\* breakHabitStreak of HabitStreakAuthority on a count of 0.
C22_AuthorityKeepsZeroCount ==
    (/\ pureIn.engine = "updateHabitStreak"
     /\ pureOut.evaluations = 1
     /\ pureOut.before.current = 0
     /\ pureOut.before.recoveryDays = 0
     /\ ~DayStateMachine_isHabitComplete(pureIn.habitId, pureIn.log, pureIn.cfg))
        => /\ pureOut.once.current = 0
           /\ pureOut.once.best = pureOut.before.best
           /\ pureOut.once.recoveryDays = 0
           /\ pureOut.once.lastBroken = pureOut.before.lastBroken

\* The break policy of one sensitivity mode applied to habit h over the step.
policyApplied(h, mode) ==
    IF mode = "strict"
    THEN streaks'[h] = 0 /\ streakHistory'[h].recoveryDays > 0
    ELSE IF mode = "moderate"
    THEN streaks'[h] = streaks[h] \div 2 /\ streakHistory'[h].recoveryDays = 0
    ELSE breakFieldsKept(h)

\* C23: on a finalized MISSED day, for an unsatisfied enabled habit in NORMAL
\* state with current = c: strict sets current to 0 and starts a recovery; the
\* normal setting (moderate) sets current to floor(c / 2) without a recovery;
\* lenient leaves current, best and recovery unchanged.
C23_SensitivityPolicy ==
    [][finalizesToday
        => \A h \in StreakHabitSet :
              normalAndUnsatisfied(h)
                  => policyApplied(h, IF settings.sensitivity = "normal"
                                      THEN "moderate" ELSE settings.sensitivity)]_vars

\* The policy by the literal value of streaks.sensitivity: 'normal' is none of
\* the values applyMissedDayPenalty tests for.
C23_PolicyByLiteralValue ==
    [][finalizesToday
        => \A h \in StreakHabitSet :
              normalAndUnsatisfied(h) => policyApplied(h, settings.sensitivity)]_vars

----------------------------------------------------------------------------
(* Claims about the habit predicates *)

\* learningDone is true and learningHours reaches the configured minimum.
learningMeetsMinimum(log, cfg) ==
    log.learningDone /\ log.learningHours >= cfg.minHoursDaily

\* C24: the learning habit is satisfied for a record if and only if
\* learningDone is true and learningHours is at least the configured minimum
\* daily hours, for isHabitValidated and for DayStateMachine.isHabitComplete.
C24_LearningNeedsMinimumHours ==
    pureOut.op # "none" =>
        /\ isHabitValidated("learning", pureIn.log, pureIn.cfg)
             <=> learningMeetsMinimum(pureIn.log, pureIn.cfg)
        /\ DayStateMachine_isHabitComplete("learning", pureIn.log, pureIn.cfg)
             <=> learningMeetsMinimum(pureIn.log, pureIn.cfg)

\* The same for DayStateMachine.isHabitComplete alone.
C24_IsHabitCompleteNeedsMinimumHours ==
    DayStateMachine_isHabitComplete("learning", pureIn.log, pureIn.cfg)
        <=> learningMeetsMinimum(pureIn.log, pureIn.cfg)

\* A record with fewer hours than the minimum that the day state machine rejects.
C24_BelowMinimumWitness ==
    /\ pureOut.op = "DayStateMachine.calculateState"
    /\ pureIn.log.learningDone
    /\ pureIn.log.learningHours > 0
    /\ pureIn.log.learningHours < pureIn.cfg.minHoursDaily
    /\ ~DayStateMachine_isHabitComplete("learning", pureIn.log, pureIn.cfg)

\* C25: after the user records a wake time later than the configured target by
\* more than the tolerance, the sleep habit of that day is not satisfied.
C25_LateWakeTimeFailsSleep ==
    [][(/\ UpdateWakeupTime
        /\ recordAfter.wakeUp - settings.wakeupTarget > WAKE_TOLERANCE)
        => ~isHabitValidated("sleep", recordAfter, settings')]_vars

\* The predicate itself: satisfied if and only if a wake time is present and
\* not later than the target by more than the tolerance.
C25_SleepByDifferenceToTarget ==
    pureOut.op # "none" =>
        (isHabitValidated("sleep", pureIn.log, pureIn.cfg)
            <=> (/\ pureIn.log.wakeUp # WakeNull
                 /\ pureIn.log.wakeUp - pureIn.cfg.wakeupTarget <= pureIn.cfg.wakeupTolerance))

\* A classified record whose wake time is later than target plus tolerance.
C25_LateRecordWitness ==
    /\ pureOut.op = "calculateDayState"
    /\ pureIn.log.wakeUp - pureIn.cfg.wakeupTarget > pureIn.cfg.wakeupTolerance
    /\ ~isHabitValidated("sleep", pureIn.log, pureIn.cfg)

\* C26: for a habit id that is none of learning, gym, sleep and screenTime the
\* habit predicate answers satisfied, for every record and configuration.
C26_UnknownHabitIsSatisfied ==
    (pureOut.op # "none" /\ pureIn.habitId \notin HabitIdSet)
        => pureOut.state = "satisfied"

\* The same for isHabitValidated of script.js alone.
C26_IsHabitValidatedFailsOpen ==
    (pureOut.op = "isHabitValidated" /\ pureIn.habitId \notin HabitIdSet)
        => pureOut.state = "satisfied"

C26_IsHabitValidatedWitness ==
    /\ pureOut.op = "isHabitValidated"
    /\ pureIn.habitId = UnknownHabit
    /\ ~pureIn.log.learningDone
    /\ ~pureIn.log.workout
    /\ pureOut.state = "satisfied"

----------------------------------------------------------------------------
(* Claims about what the life score reads *)

\* d with the fields of the un-finalized records among the given dates
\* replaced by those of another day of data entry.
withOpenRecords(d, dates, quality) ==
    [d EXCEPT !.dailyLogs =
        [i \in 1..Len(d.dailyLogs) |->
            IF d.dailyLogs[i].finalized \/ d.dailyLogs[i].date \notin dates
            THEN d.dailyLogs[i]
            ELSE scoreLog(d.dailyLogs[i].date, quality, FALSE, d.settings)]]

WindowDates == (ScoreDay - (ScoreWindowDays - 1))..ScoreDay

\* C27: only finalized days of the trailing window contribute to the score:
\* states with the same finalized records and the same streak state that
\* differ only in the fields of un-finalized records of the window, today's
\* included, have the same score.
C27_OpenRecordsDoNotCount ==
    (pureOut.computed /\ pureIn.engine = "calculateLifeScore")
        => \A quality \in {"perfect", "idle"} :
              10 * calculateLifeScore(withOpenRecords(pureIn.data, WindowDates, quality),
                                      ScoreDay, pureIn.hour)
                 = pureOut.scoreTenths

\* The same for the un-finalized records before yesterday.
C27_OlderOpenRecordsDoNotCount ==
    (pureOut.computed /\ pureIn.engine = "calculateLifeScore")
        => \A quality \in {"perfect", "idle"} :
              10 * calculateLifeScore(
                       withOpenRecords(pureIn.data, WindowDates \ {ScoreDay - 1, ScoreDay},
                                       quality),
                       ScoreDay, pureIn.hour)
                 = pureOut.scoreTenths

\* A window with one finalized day and six open records with other contents.
C27_Witness ==
    /\ pureOut.computed
    /\ pureIn.engine = "calculateLifeScore"
    /\ Cardinality(last7FinalizedIndexes(pureIn.data, ScoreDay)) = 1
    /\ pureOut.scoreTenths > 0
    /\ withOpenRecords(pureIn.data, WindowDates \ {ScoreDay - 1, ScoreDay}, "idle")
         # pureIn.data

----------------------------------------------------------------------------
(* Claims about the order of steps within a finalize *)

\* C28: within one finalize the streak update of every habit is complete
\* before the life score is recomputed: the life score that the finalize
\* sets and writes to localStorage is the score of the streak counts and
\* recovery days after the update.
C28_ScoreUsesUpdatedStreaks ==
    [][(SaveNow /\ finalizesToday)
         => /\ lifeScore' = calculateLifeScore(dashboardData', today, clockHour)
            /\ stored'.lifeScore = lifeScore']_vars

\* A finalize awaiting the backend has raised a streak today, and the score
\* it stored is not the score of the counts before the update.
C28_Witness ==
    /\ today \in pending
    /\ todayFinalized
    /\ findLog(dailyLogs, today).finalState = DAY_STATES.COMPLETED
    /\ \A h \in StreakHabitSet : streakHistory[h].lastUpdated = today /\ streaks[h] > 0
    /\ stored.lifeScore = lifeScore
    /\ lifeScore # calculateLifeScore(
                       [dashboardData EXCEPT !.streaks = [h \in StreakHabitSet |-> streaks[h] - 1]],
                       today, clockHour)

----------------------------------------------------------------------------
(* Claims about days that were swept *)

\* The record of the date, for as long as it is in the list, is not finalized
\* and has no final state COMPLETED or MISSED.
staysNotCounted(date) ==
    hasLog(dailyLogs', date)
        => /\ ~findLog(dailyLogs', date).finalized
           /\ findLog(dailyLogs', date).finalState \notin FinalizedStates

\* C29: a day that the sweep set to NOT_COUNTED is never finalized later:
\* no operation sets its finalized flag or changes its final state to
\* COMPLETED or MISSED.
C29_NotCountedIsNeverFinalized ==
    [][\A i \in 1..Len(dailyLogs) :
          (dailyLogs[i].finalState = DAY_STATES.NOT_COUNTED /\ ~dailyLogs[i].finalized)
              => staysNotCounted(dailyLogs[i].date)]_vars

\* A record is NOT_COUNTED only while it is not finalized.
C29_NotCountedIsOpen ==
    \A i \in 1..Len(dailyLogs) :
        dailyLogs[i].finalState = DAY_STATES.NOT_COUNTED => ~dailyLogs[i].finalized

\* A swept day is in the list and a later day has been finalized by saveNow.
C29_Witness ==
    /\ todayFinalized
    /\ \E i \in 1..Len(dailyLogs) :
          /\ dailyLogs[i].date < today
          /\ dailyLogs[i].finalState = DAY_STATES.NOT_COUNTED
          /\ ~dailyLogs[i].finalized

----------------------------------------------------------------------------
(* Claims about overlapping finalizes *)

C30_SuspendedFinalizeHoldsRecord ==
    \A date \in pending : hasLog(dailyLogs, date) /\ findLog(dailyLogs, date).finalized

----------------------------------------------------------------------------
(* Claims about the day-record store *)

datesOf(logs) == {logs[i].date : i \in 1..Len(logs)}

\* C31: the day-record store holds at most one record per calendar date,
\* under today-record creation, rollover sweeps, gap filling, data import
\* and loads from the backend.
C31_OneRecordPerDate == Cardinality(datesOf(dailyLogs)) = Len(dailyLogs)

\* An import of a file with a date of the list and the same date twice has
\* been merged into a list with records of several days.
C31_Witness ==
    /\ dom.notification = "imported"
    /\ Len(dailyLogs) > 2
    /\ hasLog(dailyLogs, today)
    /\ hasLog(dailyLogs, today - 1)

----------------------------------------------------------------------------
(* Claims about the finalization flags *)

flagsAgree(log) == log.finalized <=> (log.finalState \in FinalizedStates)

\* C32: in every state, also after a failed finalize and after a sweep that
\* runs while a finalize is suspended, every day record has finalized = true
\* exactly when its stored final state is COMPLETED or MISSED.
C32_FlagsAgree == \A i \in 1..Len(dailyLogs) : flagsAgree(dailyLogs[i])

\* The flags agree for as long as no finalize has been rejected.
C32_FlagsAgreeWithoutRejection ==
    rejects = 0 => \A i \in 1..Len(dailyLogs) : flagsAgree(dailyLogs[i])

\* A finalized record implies a final state of COMPLETED or MISSED.
C32_FinalizedHasFinalState ==
    \A i \in 1..Len(dailyLogs) :
        dailyLogs[i].finalized => dailyLogs[i].finalState \in FinalizedStates

\* A finalize was rejected and left a record in the list.
C32_RejectedWitness ==
    /\ rejects > 0
    /\ \E i \in 1..Len(dailyLogs) :
          ~dailyLogs[i].finalized /\ dailyLogs[i].finalState \in FinalizedStates

----------------------------------------------------------------------------
(* Claims about the streak counters *)

\* C33: for every streak habit, best count >= current count >= 0 and
\* recovery days >= 0, also right after a recovery period completes and the
\* current count restarts at 1.
C33_BestBoundsCurrent ==
    \A h \in StreakHabitSet :
        /\ streakHistory[h].best >= streaks[h]
        /\ streaks[h] >= 0
        /\ streakHistory[h].recoveryDays >= 0

\* The counters are never negative.
C33_CountersAreNatural ==
    \A h \in StreakHabitSet : streaks[h] >= 0 /\ streakHistory[h].recoveryDays >= 0

\* The best count bounds the current count of habits that were never broken.
C33_BestBoundsUnbrokenCurrent ==
    \A h \in StreakHabitSet :
        streakHistory[h].lastBroken = NoDate => streakHistory[h].best >= streaks[h]

\* A recovery period has completed: the habit was broken and counts again.
C33_RecoveryCompletedWitness ==
    \E h \in StreakHabitSet :
        /\ streakHistory[h].lastBroken # NoDate
        /\ streakHistory[h].recoveryDays = 0
        /\ streaks[h] = 1
        /\ streakHistory[h].lastUpdated = today

\* C34: a habit in recovery has no running streak: recovery days > 0 implies
\* current count = 0, for every streak habit and every sensitivity mode.
C34_RecoveryMeansNoStreak ==
    \A h \in StreakHabitSet : streakHistory[h].recoveryDays > 0 => streaks[h] = 0

\* A running streak was broken today and the habit is in recovery.
C34_Witness ==
    /\ todayFinalized
    /\ findLog(dailyLogs, today).finalState = DAY_STATES.MISSED
    /\ \E h \in StreakHabitSet :
          /\ streakHistory[h].recoveryDays > 0
          /\ streakHistory[h].lastBroken = today
          /\ streakHistory[h].best > 0
          /\ stored.streaks[h] = 0

\* The same for the rows of the backend table, which loadFromBackend copies.
C34_BackendRecoveryMeansNoStreak ==
    \A type \in BackendStreakTypes :
        bStreaks[type].recovery_days > 0 => bStreaks[type].current_count = 0

----------------------------------------------------------------------------
(* Claims about reloads *)

\* Today's record is finalized before and after the step, and every habit
\* keeps its last-evaluated date.
finalizationKept ==
    /\ hasLog(dailyLogs', today)
    /\ findLog(dailyLogs', today).finalized
    /\ \A h \in StreakHabitSet :
          streakHistory'[h].lastUpdated = streakHistory[h].lastUpdated

\* C35: finalization survives a reload from localStorage or from the
\* backend: a day finalized before the reload is still finalized after it and
\* every habit still carries its last-evaluated date, so that a saveNow after
\* the reload is refused and updates no streak again.
C35_FinalizationSurvivesReload ==
    [][((Reload \/ ReloadFromBackend) /\ todayFinalized) => finalizationKept]_vars

\* The same for the reload from localStorage alone.
C35_FinalizationSurvivesLocalReload ==
    [][(Reload /\ todayFinalized) => finalizationKept]_vars

\* After a reload from the backend no record is finalized.
C35_BackendReloadOpensRecords ==
    [][ReloadFromBackend => \A i \in 1..Len(dailyLogs') : ~dailyLogs'[i].finalized]_vars

\* A page reloaded from localStorage shows the finalized day as finalized.
C35_LocalReloadWitness ==
    /\ ~useBackend
    /\ todayFinalized
    /\ dom.notification = "none"
    /\ dom.saveBtnDisabled
    /\ \E h \in StreakHabitSet : streakHistory[h].lastUpdated = today

----------------------------------------------------------------------------
(* Claims about the recovery period *)

\* An enabled habit in recovery, not evaluated today, satisfied by the record
\* that the step finalizes.
inRecoveryAndSatisfied(h) ==
    /\ ~habitDisabled(settings, h)
    /\ streakHistory[h].recoveryDays > 0
    /\ streakHistory[h].lastUpdated # today
    /\ isHabitValidated(h, recordAfter, settings)

\* One day of the recovery is served; the count restarts at 1 with the last.
recoveryServed(h) ==
    /\ streakHistory'[h].recoveryDays = streakHistory[h].recoveryDays - 1
    /\ streakHistory[h].recoveryDays = 1 => streaks'[h] = 1

\* C36: recovery terminates: every finalized day on which a habit in recovery
\* is satisfied takes one day off its recovery, so that after at most r such
\* days the recovery days are 0 and the current count is 1.
C36_SatisfiedDayServesRecovery ==
    [][(SaveNow /\ finalizesToday)
         => \A h \in StreakHabitSet : inRecoveryAndSatisfied(h) => recoveryServed(h)]_vars

\* The same on the days that are finalized as COMPLETED.
C36_CompletedDayServesRecovery ==
    [][(SaveNow /\ finalizesToday /\ recordAfter.finalState = DAY_STATES.COMPLETED)
         => \A h \in StreakHabitSet : inRecoveryAndSatisfied(h) => recoveryServed(h)]_vars

\* On a day finalized as MISSED the recovery of no habit gets shorter.
C36_MissedDayServesNoRecovery ==
    [][(SaveNow /\ finalizesToday /\ recordAfter.finalState = DAY_STATES.MISSED)
         => \A h \in StreakHabitSet :
               streakHistory[h].recoveryDays > 0
                   => streakHistory'[h].recoveryDays >= streakHistory[h].recoveryDays]_vars

\* A recovery has ended today: the count restarted at 1.
C36_RecoveryEndedWitness ==
    /\ todayFinalized
    /\ findLog(dailyLogs, today).finalState = DAY_STATES.COMPLETED
    /\ \E h \in StreakHabitSet :
          /\ streakHistory[h].lastBroken # NoDate
          /\ streakHistory[h].lastUpdated = today
          /\ streakHistory[h].recoveryDays = 0
          /\ streaks[h] = 1

----------------------------------------------------------------------------
(* Claims about the state shown for a finalized record *)

\* C37: for every finalized record the state that recomputation reports
\* (getUIState, calculateDayState on the record's fields and the current
\* settings) is the final state stored at finalize time, also after a habit
\* was switched off or the wake-up target was changed.
C37_RecomputedStateIsFinalState ==
    \A i \in 1..Len(dailyLogs) :
        dailyLogs[i].finalized
            => getUIState(dailyLogs[i], settings) = dailyLogs[i].finalState

\* A finalize stores the state that recomputation reports right after it.
C37_FinalizeStoresRecomputedState ==
    [][(SaveNow /\ finalizesToday)
         => getUIState(recordAfter, settings') = recordAfter.finalState]_vars

\* Steps that leave the settings alone keep the two states equal.
C37_OnlySettingsChangesDiverge ==
    [][(\A i \in 1..Len(dailyLogs) :
            dailyLogs[i].finalized
                => getUIState(dailyLogs[i], settings) = dailyLogs[i].finalState)
         /\ settings' = settings
         => \A i \in 1..Len(dailyLogs') :
               dailyLogs'[i].finalized
                   => getUIState(dailyLogs'[i], settings') = dailyLogs'[i].finalState]_vars

\* The settings were saved after today was finalized as MISSED.
C37_SettingsChangedWitness ==
    /\ todayFinalized
    /\ findLog(dailyLogs, today).finalState = DAY_STATES.MISSED
    /\ dom.notification = "settings-saved"

============================================================================
